---- MODULE Spec2Model ----
(***************************************************************************)
(* simplelogin-mailcow-bridge: the request handler, the credential cache   *)
(* of the authentication module and the alias template expander.           *)
(*                                                                         *)
(* Strings are sequences of one-character strings.  Five specifications    *)
(* share the module: Spec (concurrent calls of Authenticate on the         *)
(* credential cache, the sweeper and the clock), SpecHandler (requests     *)
(* served concurrently by handleNewAlias), SpecAlias (one call of          *)
(* GenerateAlias), SpecLock (cacheMutex, statement by statement) and       *)
(* SpecVariation (generateNameVariation, character by character).          *)
(***************************************************************************)
EXTENDS Integers, Sequences, FiniteSets, TLC

(***************************************************************************)
(* Bounds of the model.                                                    *)
(***************************************************************************)
MaxTime == 3
MaxTTL == 2
MaxQual == 52
MaxRange == 3
MaxIterations == 3

VARIABLES
    cacheTTL,   \* AuthModule.cacheTTL, in clock units
    method,     \* AuthModule.method
    now,        \* time.Now()
    cache,      \* AuthModule.cache: credential hash -> Expiry
    req,        \* one record per request worker (goroutine of handleNewAlias)
    settled,    \* history: hash -> time of the last success stored by a call no other call overlapped, or -1
    cleanupNow, \* CleanupCache: the local now of a call that has not swept yet, or -1
    email,      \* GenerateAlias: the email argument
    pattern,    \* GenerateAlias: the pattern argument
    stage,      \* GenerateAlias: position of the call
    processed,  \* GenerateAlias: the string under expansion, as cells
    nameTypes,  \* GenerateAlias: keys of the map of identifyNameTypes
    generated,  \* history: number of names and segments generated so far
    iterations, \* history: iterations of the loop over lengthRegex so far
    lk,         \* one record per goroutine that uses cacheMutex: its position and locals
    readers,    \* cacheMutex: the goroutines that hold the shared lock
    writer,     \* cacheMutex: the goroutine that holds the exclusive lock, or "none"
    access,     \* history: the last access to the cache map and the locks held then
    vr          \* generateCoordinatedNames for one key: base name, runes, position

authVars == <<cacheTTL, method, now, cache, req, settled, cleanupNow>>

aliasVars == <<email, pattern, stage, processed, nameTypes, generated, iterations>>

lockVars == <<lk, readers, writer, access>>

vars == <<authVars, aliasVars, lockVars, vr>>

(***************************************************************************)
(* String helpers (package strings).                                       *)
(***************************************************************************)
Range(f) == {f[i] : i \in DOMAIN f}

\* strings.Index(s, c) for a one-character separator: first position or 0
RECURSIVE IndexFrom(_, _, _)
IndexFrom(s, c, i) ==
    IF i > Len(s) THEN 0
    ELSE IF s[i] = c THEN i
    ELSE IndexFrom(s, c, i + 1)

IndexChar(s, c) == IndexFrom(s, c, 1)

\* strings.SplitN(s, sep, 2): at most two parts, split at the first sep
SplitN2(s, c) ==
    LET i == IndexChar(s, c)
    IN  IF i = 0 THEN <<s>>
        ELSE <<SubSeq(s, 1, i - 1), SubSeq(s, i + 1, Len(s))>>

\* strings.Split(s, sep): every separator starts a new part
RECURSIVE SplitAll(_, _)
SplitAll(s, c) ==
    LET i == IndexChar(s, c)
    IN  IF i = 0 THEN <<s>>
        ELSE <<SubSeq(s, 1, i - 1)>> \o SplitAll(SubSeq(s, i + 1, Len(s)), c)

letterChars == <<"a", "b", "c", "d", "e", "f", "g", "h", "i", "j", "k", "l", "m", "n", "o", "p", "q", "r", "s", "t", "u", "v", "w", "x", "y", "z">>

upperChars == <<"A", "B", "C", "D", "E", "F", "G", "H", "I", "J", "K", "L", "M", "N", "O", "P", "Q", "R", "S", "T", "U", "V", "W", "X", "Y", "Z">>

\* unicode.ToLower, unicode.ToUpper, unicode.IsUpper on the letters
ToLowerRune(r) ==
    IF r \in Range(upperChars) THEN letterChars[IndexChar(upperChars, r)] ELSE r

ToUpperRune(r) ==
    IF r \in Range(letterChars) THEN upperChars[IndexChar(letterChars, r)] ELSE r

IsUpperRune(r) == r \in Range(upperChars)

\* strings.ToUpper(s), on the letters
ToUpper(s) == [i \in 1..Len(s) |-> ToUpperRune(s[i])]

(***************************************************************************)
(* Authentication module (cache-enabled version).                          *)
(***************************************************************************)
Workers == {"w1", "w2"}

TTLValues == {-1, 0, MaxTTL}

Methods == {<<"I", "m", "a", "p">>, <<"p", "o", "p", "3">>}

\* strings.ToUpper(a.method)
ToUpperMethod(m) == ToUpper(m)

IsCacheEnabledStrict(ttl) == ttl >= 0

\* AuthModule.IsCacheEnabled
IsCacheEnabled(ttl) == ttl > 0

\* hashCredentials: sha256 of username + ":" + password; the digest is
\* represented by the bytes it is computed from (no collisions of sha256)
hashCredentials(username, password) ==
    [sha256 |-> username \o <<":">> \o password]

\* cacheEntry, found := a.cache[credHash]
CacheGet(c, h) ==
    IF h \in DOMAIN c THEN [found |-> TRUE, Expiry |-> c[h]]
    ELSE [found |-> FALSE, Expiry |-> 0]

\* a.cache[credHash] = AuthCache{Expiry: expiry}
CachePut(c, h, e) ==
    [k \in DOMAIN c \cup {h} |-> IF k = h THEN e ELSE c[k]]

CacheHitInclusive(entry, t) == entry.found /\ t <= entry.Expiry

\* found && time.Now().Before(cacheEntry.Expiry)
CacheHit(entry, t) == entry.found /\ t < entry.Expiry

\* case "IMAP", case "SMTP" of the switch in Authenticate
SupportedMethod(m) ==
    ToUpperMethod(m) \in {<<"I", "M", "A", "P">>, <<"S", "M", "T", "P">>}

ShouldCacheAlways(err, ttl) == IsCacheEnabled(ttl)

\* the cache is written only past the "if err != nil { return err }" and
\* inside "if a.IsCacheEnabled()"
ShouldCache(err, ttl) == err = "nil" /\ IsCacheEnabled(ttl)

\* now.After(entry.Expiry) in CleanupCache
\* an expiry test that also takes the instant of the expiry as passed
ExpiredInclusive(e, t) == t >= e

Expired(e, t) == t > e

\* a sweep that deletes every entry
ExpiredKeysAll(c, t) == DOMAIN c

\* the keys CleanupCache deletes
ExpiredKeys(c, t) == {k \in DOMAIN c : Expired(c[k], t)}


(***************************************************************************)
(* Request handler (handleNewAlias) and its collaborators.                 *)
(***************************************************************************)
\* Authentication header values sent by clients
Headers ==
    { <<>>,
      <<"u">>,
      <<"u", "@", "d", ":", "p">>,
      <<"a", ":", "b", ":", "c">> }

\* config.AliasGenerationPattern as the handler passes it on
ConfiguredPattern == <<"{", "w", "o", "r", "d", "s", "}", "@", "%", "d">>

\* number of distinct random outcomes of one expansion kept apart by Spec
NumAliases == 2

ParseAuthHeaderLenient(h) ==
    LET credentials == SplitN2(h, ":")
    IN  IF h = <<>> THEN [ok |-> FALSE, username |-> <<>>, password |-> <<>>]
        ELSE IF Len(credentials) # 2
             THEN [ok |-> TRUE, username |-> h, password |-> <<>>]
        ELSE [ok |-> TRUE, username |-> credentials[1], password |-> credentials[2]]

\* the header checks of handleNewAlias: empty header and SplitN(..., ":", 2)
ParseAuthHeader(h) ==
    LET credentials == SplitN2(h, ":")
    IN  IF h = <<>> THEN [ok |-> FALSE, username |-> <<>>, password |-> <<>>]
        ELSE IF Len(credentials) # 2
             THEN [ok |-> FALSE, username |-> <<>>, password |-> <<>>]
        ELSE [ok |-> TRUE, username |-> credentials[1], password |-> credentials[2]]

GenerateAliasErrorLoose(mail, pat) ==
    IF mail = <<>> \/ pat = <<>> THEN "email and pattern must be set"
    ELSE IF Len(SplitAll(mail, "@")) < 2 THEN "invalid email format"
    ELSE "nil"

\* the two up-front checks of GenerateAlias: "" arguments, then the '@' count
GenerateAliasError(mail, pat) ==
    IF mail = <<>> \/ pat = <<>> THEN "email and pattern must be set"
    ELSE IF Len(SplitAll(mail, "@")) # 2 THEN "invalid email format"
    ELSE "nil"

\* credential hashes the requests of this model can produce
Hashes ==
    { hashCredentials(ParseAuthHeader(h).username, ParseAuthHeader(h).password) :
        h \in {x \in Headers : ParseAuthHeader(x).ok} }

NoAlias == [local |-> 0, domain |-> <<>>]

NoArgs == [address |-> NoAlias, goto |-> <<>>]

\* what the Mailcow API answers to POST /api/v1/add/alias: whether the
\* request got an answer, the status code, whether the body could be read,
\* the JSON shape of the body, the "type" of the result it carries, and its
\* "msg" (a string, or "" with msgIsString FALSE for any other JSON value)
Response(sent, status, readable, shape, type, msgIsString, msg) ==
    [sent |-> sent, status |-> status, readable |-> readable, shape |-> shape,
     type |-> type, msgIsString |-> msgIsString, msg |-> msg]

NoResponse == Response(FALSE, 0, FALSE, "none", "none", FALSE, "")

ResultTypes == {"success", "danger", "error"}

MailcowResponses ==
    {NoResponse}
    \cup {Response(TRUE, st, TRUE, "none", "none", FALSE, "") : st \in {401, 500}}
    \cup {Response(TRUE, 200, FALSE, "none", "none", FALSE, "")}
    \cup {Response(TRUE, 200, TRUE, "invalid", "none", FALSE, "")}
    \cup {Response(TRUE, 200, TRUE, "array", t, FALSE, "") : t \in ResultTypes}
    \cup {Response(TRUE, 200, TRUE, "object", t, FALSE, "") : t \in ResultTypes}
    \cup {Response(TRUE, 200, TRUE, "object", t, TRUE, m) :
            t \in ResultTypes,
            m \in {"", "alias_added", "success", "object_exists"}}

\* json.Unmarshal(body, &response) with response a map[string]interface{}:
\* only a JSON object decodes without an error
UnmarshalIntoMap(resp) == resp.shape = "object"

\* MailcowClient.CreateAlias: "nil" or "err"
CreateAliasError(resp) ==
    IF ~resp.sent THEN "err"
    ELSE IF resp.status # 200 THEN "err"
    ELSE IF ~resp.readable THEN "err"
    ELSE IF /\ UnmarshalIntoMap(resp)
            /\ resp.msgIsString /\ resp.msg # ""
            /\ resp.msg # "alias_added" /\ resp.msg # "success"
         THEN "err"
    ELSE "nil"

\* what handleNewAlias writes to the caller: the text of http.Error, or the
\* JSON object with the alias
NoBody == [text |-> "none", alias |-> NoAlias]

ErrorBody(text) == [text |-> text, alias |-> NoAlias]

AliasBody(a) == [text |-> "alias", alias |-> a]

\* a handler that answers with the alias whatever CreateAlias returned
CreateResponseAlways(err, a) == [status |-> 200, body |-> AliasBody(a)]

\* handleNewAlias after mailcowClient.CreateAlias: http.Error with status 500
\* and the error, or the alias
CreateResponse(err, a) ==
    IF err # "nil"
    THEN [status |-> 500,
          body |-> ErrorBody("Failed to create alias in Mailcow")]
    ELSE [status |-> 200, body |-> AliasBody(a)]

\* cacheEntry, found of a call that has not read the map
NoEntry == [found |-> FALSE, Expiry |-> 0]

IdleReq ==
    [pc |-> "idle", hdr |-> <<>>, username |-> <<>>, password |-> <<>>,
     entry |-> NoEntry,
     expiry |-> 0, path |-> "none", authRes |-> "none", overlapped |-> FALSE,
     alias |-> NoAlias, calls |-> <<>>, created |-> NoArgs, status |-> 0,
     verifierCalls |-> 0, verdict |-> "none", http |-> FALSE,
     raced |-> FALSE, panicked |-> FALSE,
     mailcow |-> NoResponse, body |-> NoBody]

HashOf(r) == hashCredentials(r.username, r.password)

\* the credentials that reach Authenticate: the handler is its only caller
Credentials ==
    { [username |-> ParseAuthHeader(h).username,
       password |-> ParseAuthHeader(h).password] :
        h \in {x \in Headers : ParseAuthHeader(x).ok} }

\* where a request goes once Authenticate has returned nil
AfterAuth(r) == IF r.http THEN "generate" ELSE "done"

\* http.Error(w, errorMsg, http.StatusUnauthorized) when Authenticate fails
AuthFailStatus(r) == IF r.http THEN 401 ELSE 0

AuthFailBody(r) ==
    IF r.http THEN ErrorBody("Authentication failed") ELSE NoBody

\* a call of Authenticate between its read of the map and its return
InFlight(r) == r.pc \in {"test", "verify", "write"}

\* the goroutines that use cacheMutex: two requests in Authenticate and the
\* goroutine of setupCacheCleanup
AuthThreads == {"a1", "a2"}

Sweeper == "sweep"

LockThreads == AuthThreads \cup {Sweeper}

IdleThread ==
    [pc |-> "idle", h |-> [sha256 |-> <<>>], found |-> FALSE, Expiry |-> 0,
     expiry |-> 0, total |-> 0, tnow |-> 0]

NoAccess == [thread |-> "none", kind |-> "none", shared |-> FALSE,
             exclusive |-> FALSE]

\* an access of goroutine t to the map, with the locks t holds at that moment
Access(t, kind) ==
    [thread |-> t, kind |-> kind, shared |-> t \in readers,
     exclusive |-> writer = t]

NoReplacement == [pos |-> 0, old |-> "", new |-> ""]

IdleVariation ==
    [baseName |-> <<>>, role |-> <<>>, runes |-> <<>>, stage |-> "idle",
     changesToMake |-> 0, i |-> 0, last |-> NoReplacement,
     removed |-> FALSE, inserted |-> FALSE]

InitLockVars ==
    /\ vr = IdleVariation
    /\ lk = [t \in LockThreads |-> IdleThread]
    /\ readers = {}
    /\ writer = "none"
    /\ access = NoAccess

Init ==
    /\ cacheTTL \in TTLValues
    /\ method \in Methods
    /\ now = 0
    /\ cache = [h \in {} |-> 0]
    /\ req = [w \in Workers |-> IdleReq]
    /\ settled = [h \in Hashes |-> -1]
    /\ cleanupNow = -1
    /\ InitLockVars
    /\ email = <<>>
    /\ pattern = <<>>
    /\ stage = "idle"
    /\ processed = <<>>
    /\ nameTypes = {}
    /\ generated = 0
    /\ iterations = 0

\* handleNewAlias up to the call of Authenticate
BeginRequest(w, h) ==
    /\ req[w].pc = "idle"
    /\ LET cr == ParseAuthHeader(h)
       IN  req' = [req EXCEPT ![w] =
                IF cr.ok
                THEN [IdleReq EXCEPT !.pc = "auth", !.hdr = h, !.http = TRUE,
                                     !.username = cr.username,
                                     !.password = cr.password,
                                     !.calls = <<"Authenticate">>]
                ELSE [IdleReq EXCEPT !.pc = "done", !.hdr = h, !.http = TRUE,
                                     !.status = 401,
                                     !.body = ErrorBody("Unauthorized")]]
    /\ UNCHANGED <<cacheTTL, method, now, cache, settled, cleanupNow>>
    /\ UNCHANGED aliasVars
    /\ UNCHANGED lockVars
    /\ UNCHANGED vr

\* a goroutine enters Authenticate(username, password)
BeginAuth(w, c) ==
    /\ req[w].pc = "idle"
    /\ req' = [req EXCEPT ![w] =
            [IdleReq EXCEPT !.pc = "auth", !.username = c.username,
                            !.password = c.password]]
    /\ UNCHANGED <<cacheTTL, method, now, cache, settled, cleanupNow>>
    /\ UNCHANGED aliasVars
    /\ UNCHANGED lockVars
    /\ UNCHANGED vr

\* a lookup that, on a hit, moves the entry's expiry to t + ttl
CacheAfterLookupRenew(c, h, hit, t, ttl) ==
    IF hit THEN CachePut(c, h, t + ttl) ELSE c

\* Authenticate: what the lookup does to the map, on a hit (return nil) and
\* on a miss alike: nothing
CacheAfterLookup(c, h, hit, t, ttl) == c

\* Authenticate: "if a.IsCacheEnabled()", then RLock, the read of the map
\* into cacheEntry, found, and RUnlock; with the cache disabled the call
\* goes on to the switch on the method
CacheRead(w) ==
    /\ req[w].pc = "auth"
    /\ LET r == req[w]
           h == HashOf(r)
           others == {v \in Workers \ {w} : InFlight(req[v]) /\ HashOf(req[v]) = h}
       IN  /\ req' = [v \in Workers |->
                IF v = w
                THEN IF IsCacheEnabled(cacheTTL)
                     THEN [r EXCEPT !.pc = "test",
                                    !.entry = CacheGet(cache, h),
                                    !.overlapped = (others # {})]
                     ELSE [r EXCEPT !.pc = "verify", !.path = "miss",
                                    !.overlapped = (others # {})]
                ELSE IF v \in others
                     THEN [req[v] EXCEPT !.overlapped = TRUE]
                     ELSE req[v]]
    /\ UNCHANGED <<cacheTTL, method, now, cache, settled, cleanupNow>>
    /\ UNCHANGED aliasVars
    /\ UNCHANGED lockVars
    /\ UNCHANGED vr

\* Authenticate: "if found && time.Now().Before(cacheEntry.Expiry)", on the
\* copy of the entry and the clock of this moment: return nil, or go on to
\* the switch on the method
ExpiryTest(w) ==
    /\ req[w].pc = "test"
    /\ LET r == req[w]
           h == HashOf(r)
           hit == CacheHit(r.entry, now)
       IN  /\ req' = [req EXCEPT ![w] =
                IF hit
                THEN [r EXCEPT !.pc = AfterAuth(r), !.path = "hit",
                               !.authRes = "nil", !.entry = NoEntry,
                               !.overlapped = FALSE]
                ELSE [r EXCEPT !.pc = "verify", !.path = "miss",
                               !.entry = NoEntry]]
           /\ cache' = CacheAfterLookup(cache, h, hit, now, cacheTTL)
           /\ settled' = [settled EXCEPT ![h] =
                IF @ >= 0 /\ now >= @ + cacheTTL THEN -1 ELSE @]
    /\ UNCHANGED <<cacheTTL, method, now, cleanupNow>>
    /\ UNCHANGED aliasVars
    /\ UNCHANGED lockVars
    /\ UNCHANGED vr

\* Authenticate: the switch on the method, the remote verifier's answer and
\* expiry := time.Now().Add(a.cacheTTL)
VerifyReturn(w, ok) ==
    /\ req[w].pc = "verify"
    /\ LET r == req[w]
           h == HashOf(r)
           verdict == IF ~SupportedMethod(method) THEN "unsupported"
                      ELSE IF ok THEN "ok" ELSE "reject"
           err == IF verdict = "ok" THEN "nil" ELSE "err"
           called == IF verdict = "unsupported" THEN 0 ELSE 1
           rr == [r EXCEPT !.verdict = verdict, !.verifierCalls = called]
       IN  /\ req' = [req EXCEPT ![w] =
                IF ShouldCache(err, cacheTTL)
                THEN [rr EXCEPT !.pc = "write", !.expiry = now + cacheTTL]
                ELSE IF err = "nil"
                THEN [rr EXCEPT !.pc = AfterAuth(r), !.authRes = "nil",
                                !.overlapped = FALSE]
                ELSE [rr EXCEPT !.pc = "done", !.authRes = "err",
                                !.status = AuthFailStatus(r),
                                !.body = AuthFailBody(r),
                                !.overlapped = FALSE]]
    /\ UNCHANGED <<cacheTTL, method, now, cache, settled, cleanupNow>>
    /\ UNCHANGED aliasVars
    /\ UNCHANGED lockVars
    /\ UNCHANGED vr

\* Authenticate: the insert under the write lock, then return nil
WriteCache(w) ==
    /\ req[w].pc = "write"
    /\ LET r == req[w]
           h == HashOf(r)
           t == r.expiry - cacheTTL
       IN  /\ cache' = CachePut(cache, h, r.expiry)
           /\ req' = [req EXCEPT ![w] =
                [r EXCEPT !.pc = AfterAuth(r), !.authRes = "nil",
                          !.expiry = 0, !.overlapped = FALSE]]
           /\ settled' = [settled EXCEPT ![h] = IF r.overlapped THEN -1 ELSE t]
    /\ UNCHANGED <<cacheTTL, method, now, cleanupNow>>
    /\ UNCHANGED aliasVars
    /\ UNCHANGED lockVars
    /\ UNCHANGED vr

\* handleNewAlias calls alias.GenerateAlias(username, pattern): the checks
\* of the arguments return the error at once; a call that passes them goes
\* on to draw from randSource, the *rand.Rand all requests share without a
\* lock, and races with every other request that is drawing
GenerateAlias(w) ==
    /\ req[w].pc = "generate"
    /\ LET r == req[w]
           err == GenerateAliasError(r.username, ConfiguredPattern)
           others == {v \in Workers \ {w} : req[v].pc = "generating"}
       IN  req' = [v \in Workers |->
                IF v = w
                THEN IF err # "nil"
                     THEN [r EXCEPT !.pc = "done", !.status = 500,
                                    !.body = ErrorBody("Failed to generate alias"),
                                    !.calls = Append(@, "GenerateAlias")]
                     ELSE [r EXCEPT !.pc = "generating",
                                    !.raced = (others # {}),
                                    !.calls = Append(@, "GenerateAlias")]
                ELSE IF err = "nil" /\ v \in others
                     THEN [req[v] EXCEPT !.raced = TRUE]
                     ELSE req[v]]
    /\ UNCHANGED <<cacheTTL, method, now, cache, settled, cleanupNow>>
    /\ UNCHANGED aliasVars
    /\ UNCHANGED lockVars
    /\ UNCHANGED vr

\* what a call of GenerateAlias can end in: it returns an alias, or, when
\* its draws raced with another call's, the random source panics
GenerateOutcomes(r) == IF r.raced THEN {"alias", "panic"} ELSE {"alias"}

\* alias.GenerateAlias returns the alias of draw g; a panic of the random
\* source ends the request with no call of CreateAlias and nothing written
\* to the caller (net/http recovers it and closes the connection)
GenerateReturn(w, g, outcome) ==
    /\ req[w].pc = "generating"
    /\ outcome \in GenerateOutcomes(req[w])
    /\ LET r == req[w]
       IN  req' = [req EXCEPT ![w] =
                IF outcome = "panic"
                THEN [r EXCEPT !.pc = "done", !.panicked = TRUE]
                ELSE [r EXCEPT !.pc = "create",
                               !.alias = [local |-> g,
                                          domain |-> SplitAll(r.username, "@")[2]]]]
    /\ UNCHANGED <<cacheTTL, method, now, cache, settled, cleanupNow>>
    /\ UNCHANGED aliasVars
    /\ UNCHANGED lockVars
    /\ UNCHANGED vr

\* handleNewAlias: mailcowClient.CreateAlias(generatedAlias, username)
Create(w, resp) ==
    /\ req[w].pc = "create"
    /\ LET r == req[w]
       IN  req' = [req EXCEPT ![w] =
                [r EXCEPT !.pc = "done",
                          !.status =
                            CreateResponse(CreateAliasError(resp), r.alias).status,
                          !.body =
                            CreateResponse(CreateAliasError(resp), r.alias).body,
                          !.mailcow = resp,
                          !.calls = Append(@, "CreateAlias"),
                          !.created = [address |-> r.alias, goto |-> r.username]]]
    /\ UNCHANGED <<cacheTTL, method, now, cache, settled, cleanupNow>>
    /\ UNCHANGED aliasVars
    /\ UNCHANGED lockVars
    /\ UNCHANGED vr

\* the handler returns; the worker serves the next request
Finish(w) ==
    /\ req[w].pc = "done"
    /\ req' = [req EXCEPT ![w] = IdleReq]
    /\ UNCHANGED <<cacheTTL, method, now, cache, settled, cleanupNow>>
    /\ UNCHANGED aliasVars
    /\ UNCHANGED lockVars
    /\ UNCHANGED vr

\* AuthModule.CleanupCache: the cache it leaves
CleanupCacheMap(c, t, ttl) ==
    IF ~IsCacheEnabled(ttl) THEN c
    ELSE [k \in DOMAIN c \ ExpiredKeys(c, t) |-> c[k]]

\* AuthModule.CleanupCache: the count it returns
CleanupCacheRet(c, t, ttl) ==
    IF ~IsCacheEnabled(ttl) THEN 0
    ELSE Cardinality(ExpiredKeys(c, t))

\* AuthModule.CacheStats: (total, valid)
CacheStatsRet(c, t, ttl) ==
    IF ~IsCacheEnabled(ttl) THEN <<0, 0>>
    ELSE <<Cardinality(DOMAIN c), Cardinality({k \in DOMAIN c : t < c[k]})>>

\* setupCacheCleanup calls CleanupCache, after CacheStats has counted at
\* least one entry: "if !a.IsCacheEnabled() { return 0 }", then
\* now := time.Now()
CleanupNow ==
    /\ cleanupNow = -1
    /\ CacheStatsRet(cache, now, cacheTTL)[1] > 0
    /\ cleanupNow' = IF IsCacheEnabled(cacheTTL) THEN now ELSE -1
    /\ UNCHANGED <<cacheTTL, method, now, cache, req, settled>>
    /\ UNCHANGED aliasVars
    /\ UNCHANGED lockVars
    /\ UNCHANGED vr

\* CleanupCache: Lock, the loop over the map with the now read before the
\* lock was taken, the deferred Unlock
CleanupCache ==
    /\ cleanupNow >= 0
    /\ cache' = CleanupCacheMap(cache, cleanupNow, cacheTTL)
    /\ cleanupNow' = -1
    /\ UNCHANGED <<cacheTTL, method, now, req, settled>>
    /\ UNCHANGED aliasVars
    /\ UNCHANGED lockVars
    /\ UNCHANGED vr

\* the clock advances
Tick ==
    /\ now < MaxTime
    /\ now' = now + 1
    /\ UNCHANGED <<cacheTTL, method, cache, req, settled, cleanupNow>>
    /\ UNCHANGED aliasVars
    /\ UNCHANGED lockVars
    /\ UNCHANGED vr

\* a pair that is not an account of the mail server: Authenticate("a:b", "c")
WrongCredentials ==
    {[username |-> <<"a", ":", "b">>, password |-> <<"c">>]}

\* what the mail server can answer to a login with the pair of request r:
\* it never accepts a pair that is not an account
VerifierAnswers(r) ==
    IF [username |-> r.username, password |-> r.password] \in WrongCredentials
    THEN {FALSE}
    ELSE BOOLEAN

\* concurrent calls of Authenticate, sweeps and the clock
Next ==
    \/ \E w \in Workers, c \in Credentials \cup WrongCredentials :
            BeginAuth(w, c)
    \/ \E w \in Workers : CacheRead(w)
    \/ \E w \in Workers : ExpiryTest(w)
    \/ \E w \in Workers :
            \E ok \in VerifierAnswers(req[w]) : VerifyReturn(w, ok)
    \/ \E w \in Workers : WriteCache(w)
    \/ \E w \in Workers : Finish(w)
    \/ CleanupNow
    \/ CleanupCache
    \/ Tick

Spec == Init /\ [][Next]_vars

\* requests served concurrently by the goroutines of handleNewAlias, at one
\* reading of the clock (expiry and the sweep are explored by Spec)
NextHandler ==
    \/ \E w \in Workers, h \in Headers : BeginRequest(w, h)
    \/ \E w \in Workers : CacheRead(w)
    \/ \E w \in Workers : ExpiryTest(w)
    \/ \E w \in Workers, ok \in BOOLEAN : VerifyReturn(w, ok)
    \/ \E w \in Workers : WriteCache(w)
    \/ \E w \in Workers : GenerateAlias(w)
    \/ \E w \in Workers, g \in 1..NumAliases :
            \E outcome \in GenerateOutcomes(req[w]) : GenerateReturn(w, g, outcome)
    \/ \E w \in Workers, resp \in MailcowResponses : Create(w, resp)
    \/ \E w \in Workers : Finish(w)

SpecHandler == Init /\ [][NextHandler]_vars

\* ---- cacheMutex: Authenticate, CacheStats and CleanupCache statement by
\* ---- statement

\* what a step on cacheMutex and the map leaves alone
LockFrame ==
    /\ UNCHANGED <<cacheTTL, method, req, settled, cleanupNow>>
    /\ UNCHANGED aliasVars
    /\ UNCHANGED vr

\* an RUnlock that does not release
ReadersAfterRUnlockKept(rs, t) == rs

\* a.cacheMutex.RUnlock()
ReadersAfterRUnlock(rs, t) == rs \ {t}

\* Authenticate is entered; with the cache enabled it goes to RLock
ABegin(t, h) ==
    /\ lk[t].pc = "idle"
    /\ lk' = [lk EXCEPT ![t] =
            [IdleThread EXCEPT !.h = h,
                               !.pc = IF IsCacheEnabled(cacheTTL)
                                      THEN "rlock" ELSE "verify"]]
    /\ UNCHANGED <<now, cache, readers, writer, access>>
    /\ LockFrame

\* a.cacheMutex.RLock()
ARLock(t) ==
    /\ lk[t].pc = "rlock"
    /\ writer = "none"
    /\ readers' = readers \cup {t}
    /\ lk' = [lk EXCEPT ![t].pc = "read"]
    /\ UNCHANGED <<now, cache, writer, access>>
    /\ LockFrame

\* cacheEntry, found := a.cache[credHash]
ARead(t) ==
    /\ lk[t].pc = "read"
    /\ lk' = [lk EXCEPT ![t] =
            [@ EXCEPT !.pc = "runlock",
                      !.found = CacheGet(cache, lk[t].h).found,
                      !.Expiry = CacheGet(cache, lk[t].h).Expiry]]
    /\ access' = Access(t, "read")
    /\ UNCHANGED <<now, cache, readers, writer>>
    /\ LockFrame

\* a.cacheMutex.RUnlock()
ARUnlock(t) ==
    /\ lk[t].pc = "runlock"
    /\ readers' = ReadersAfterRUnlock(readers, t)
    /\ lk' = [lk EXCEPT ![t].pc = "test"]
    /\ UNCHANGED <<now, cache, writer, access>>
    /\ LockFrame

\* if found && time.Now().Before(cacheEntry.Expiry) { return nil }
ATest(t) ==
    /\ lk[t].pc = "test"
    /\ lk' = [lk EXCEPT ![t] =
            IF CacheHit([found |-> lk[t].found, Expiry |-> lk[t].Expiry], now)
            THEN IdleThread
            ELSE [@ EXCEPT !.pc = "verify"]]
    /\ UNCHANGED <<now, cache, readers, writer, access>>
    /\ LockFrame

\* the remote verifier answers; expiry := time.Now().Add(a.cacheTTL)
AVerifyReturn(t, ok) ==
    /\ lk[t].pc = "verify"
    /\ LET err == IF SupportedMethod(method) /\ ok THEN "nil" ELSE "err"
       IN  lk' = [lk EXCEPT ![t] =
                IF ShouldCache(err, cacheTTL)
                THEN [@ EXCEPT !.pc = "lock", !.expiry = now + cacheTTL]
                ELSE IdleThread]
    /\ UNCHANGED <<now, cache, readers, writer, access>>
    /\ LockFrame

\* a.cacheMutex.Lock()
ALock(t) ==
    /\ lk[t].pc = "lock"
    /\ readers = {} /\ writer = "none"
    /\ writer' = t
    /\ lk' = [lk EXCEPT ![t].pc = "write"]
    /\ UNCHANGED <<now, cache, readers, access>>
    /\ LockFrame

\* a.cache[credHash] = AuthCache{Expiry: expiry}
AWrite(t) ==
    /\ lk[t].pc = "write"
    /\ cache' = CachePut(cache, lk[t].h, lk[t].expiry)
    /\ access' = Access(t, "write")
    /\ lk' = [lk EXCEPT ![t].pc = "unlock"]
    /\ UNCHANGED <<now, readers, writer>>
    /\ LockFrame

\* a.cacheMutex.Unlock(); return nil
AUnlock(t) ==
    /\ lk[t].pc = "unlock"
    /\ writer' = "none"
    /\ lk' = [lk EXCEPT ![t] = IdleThread]
    /\ UNCHANGED <<now, cache, readers, access>>
    /\ LockFrame

\* setupCacheCleanup: the ticker fires and CacheStats is entered
SBegin ==
    /\ lk[Sweeper].pc = "idle"
    /\ IsCacheEnabled(cacheTTL)
    /\ lk' = [lk EXCEPT ![Sweeper].pc = "stats_rlock"]
    /\ UNCHANGED <<now, cache, readers, writer, access>>
    /\ LockFrame

\* CacheStats: a.cacheMutex.RLock()
SStatsRLock ==
    /\ lk[Sweeper].pc = "stats_rlock"
    /\ writer = "none"
    /\ readers' = readers \cup {Sweeper}
    /\ lk' = [lk EXCEPT ![Sweeper].pc = "stats_read"]
    /\ UNCHANGED <<now, cache, writer, access>>
    /\ LockFrame

\* CacheStats: for _, entry := range a.cache
SStatsRead ==
    /\ lk[Sweeper].pc = "stats_read"
    /\ lk' = [lk EXCEPT ![Sweeper] =
            [@ EXCEPT !.pc = "stats_runlock",
                      !.total = CacheStatsRet(cache, now, cacheTTL)[1]]]
    /\ access' = Access(Sweeper, "read")
    /\ UNCHANGED <<now, cache, readers, writer>>
    /\ LockFrame

\* CacheStats: the deferred RUnlock; setupCacheCleanup: if total > 0
SStatsRUnlock ==
    /\ lk[Sweeper].pc = "stats_runlock"
    /\ readers' = readers \ {Sweeper}
    /\ lk' = [lk EXCEPT ![Sweeper] =
            IF lk[Sweeper].total > 0
            THEN [@ EXCEPT !.pc = "clean_now"]
            ELSE IdleThread]
    /\ UNCHANGED <<now, cache, writer, access>>
    /\ LockFrame

\* CleanupCache: now := time.Now(), with no lock held
SCleanNow ==
    /\ lk[Sweeper].pc = "clean_now"
    /\ lk' = [lk EXCEPT ![Sweeper] = [@ EXCEPT !.pc = "clean_lock", !.tnow = now]]
    /\ UNCHANGED <<now, cache, readers, writer, access>>
    /\ LockFrame

\* CleanupCache: a.cacheMutex.Lock()
SCleanLock ==
    /\ lk[Sweeper].pc = "clean_lock"
    /\ readers = {} /\ writer = "none"
    /\ writer' = Sweeper
    /\ lk' = [lk EXCEPT ![Sweeper].pc = "clean_loop"]
    /\ UNCHANGED <<now, cache, readers, access>>
    /\ LockFrame

\* CleanupCache: the loop that deletes the expired entries
SCleanLoop ==
    /\ lk[Sweeper].pc = "clean_loop"
    /\ cache' = CleanupCacheMap(cache, lk[Sweeper].tnow, cacheTTL)
    /\ access' = Access(Sweeper, "write")
    /\ lk' = [lk EXCEPT ![Sweeper].pc = "clean_unlock"]
    /\ UNCHANGED <<now, readers, writer>>
    /\ LockFrame

\* CleanupCache: the deferred Unlock
SCleanUnlock ==
    /\ lk[Sweeper].pc = "clean_unlock"
    /\ writer' = "none"
    /\ lk' = [lk EXCEPT ![Sweeper] = IdleThread]
    /\ UNCHANGED <<now, cache, readers, access>>
    /\ LockFrame

NextLock ==
    \/ \E t \in AuthThreads, h \in Hashes : ABegin(t, h)
    \/ \E t \in AuthThreads : ARLock(t)
    \/ \E t \in AuthThreads : ARead(t)
    \/ \E t \in AuthThreads : ARUnlock(t)
    \/ \E t \in AuthThreads : ATest(t)
    \/ \E t \in AuthThreads, ok \in BOOLEAN : AVerifyReturn(t, ok)
    \/ \E t \in AuthThreads : ALock(t)
    \/ \E t \in AuthThreads : AWrite(t)
    \/ \E t \in AuthThreads : AUnlock(t)
    \/ SBegin
    \/ SStatsRLock
    \/ SStatsRead
    \/ SStatsRUnlock
    \/ SCleanNow
    \/ SCleanLock
    \/ SCleanLoop
    \/ SCleanUnlock
    \/ Tick

SpecLock == Init /\ [][NextLock]_vars

(***************************************************************************)
(* Alias template expander (package alias): constants and strings.         *)
(***************************************************************************)
defaultMinNameLength == 3
defaultMaxNameLength == 10
defaultWordLength == 10
defaultCharLength == 10
defaultWordCount == 1

\* "if maxLength > 50 { maxLength = 50 }" in replaceTemplateVariables
maxLengthLimit == 50

TypeWords == <<"w", "o", "r", "d", "s">>
TypeWordChars == <<"w", "o", "r", "d", "-", "c", "h", "a", "r", "s">>
TypeChars == <<"c", "h", "a", "r", "s">>
TypeNames == <<"n", "a", "m", "e", "s">>
TypeFirstName == <<"f", "i", "r", "s", "t", "n", "a", "m", "e">>
TypeLastName == <<"l", "a", "s", "t", "n", "a", "m", "e">>
TypeMiddleName == <<"m", "i", "d", "d", "l", "e", "n", "a", "m", "e">>
TypeNickname == <<"n", "i", "c", "k", "n", "a", "m", "e">>

\* the type strings of the name case of the switch on typeStr
NameTypeStrs == {TypeFirstName, TypeLastName, TypeMiddleName, TypeNickname, TypeNames}

DomainPlaceholder == <<"%", "d">>

\* "{" + typeStr + "}"
Brace(typeStr) == <<"{">> \o typeStr \o <<"}">>

WordsPattern == Brace(TypeWords)
WordCharsPattern == Brace(TypeWordChars)
CharsPattern == Brace(TypeChars)
NamesPattern == Brace(TypeNames)
FirstNamePattern == Brace(TypeFirstName)
LastNamePattern == Brace(TypeLastName)
MiddleNamePattern == Brace(TypeMiddleName)
NicknamePattern == Brace(TypeNickname)

numberChars == <<"0", "1", "2", "3", "4", "5", "6", "7", "8", "9">>
specialChars == <<".", "-", "_">>
wordCharsAllowed == letterChars \o numberChars
allCharsAllowed == wordCharsAllowed \o specialChars

\* the character classes of the regular expression: [a-zA-Z-] and \d
TypeChar ==
    Range(letterChars) \cup
    {"A", "B", "C", "D", "E", "F", "G", "H", "I", "J", "K", "L", "M",
     "N", "O", "P", "Q", "R", "S", "T", "U", "V", "W", "X", "Y", "Z", "-"}

DigitChar == Range(numberChars)

\* what a search sees of generated text of which only this is known: each
\* of its characters is one of [a-zA-Z-]
TypeRunMark == "[a-zA-Z-]+"

\* s[i], or "" past either end
At(s, i) == IF i \in 1..Len(s) THEN s[i] ELSE ""

\* strings.Index(s, t) for a non-empty t: first position or 0
Index(s, t) ==
    LET at == {i \in 1..(Len(s) - Len(t) + 1) : SubSeq(s, i, i + Len(t) - 1) = t}
    IN  IF at = {} THEN 0 ELSE CHOOSE i \in at : \A j \in at : i <= j

\* strings.Contains(s, t)
Contains(s, t) == Index(s, t) # 0

\* strconv.Atoi on a string of digits
RECURSIVE Atoi(_)
Atoi(d) ==
    IF d = <<>> THEN 0
    ELSE Atoi(SubSeq(d, 1, Len(d) - 1)) * 10
            + ((CHOOSE v \in 1..10 : numberChars[v] = d[Len(d)]) - 1)

\* strconv.Itoa on a natural number
RECURSIVE Itoa(_)
Itoa(n) ==
    IF n < 10 THEN <<numberChars[n + 1]>>
    ELSE Itoa(n \div 10) \o <<numberChars[(n % 10) + 1]>>

(***************************************************************************)
(* lengthRegex: \{([a-zA-Z-]+):(\d+)(?:,(\d+))?\}                          *)
(***************************************************************************)
\* last position of the run of [a-zA-Z-] that starts at i (i-1: no run)
RECURSIVE TypeRunEnd(_, _)
TypeRunEnd(s, i) ==
    IF At(s, i) \in TypeChar \cup {TypeRunMark} THEN TypeRunEnd(s, i + 1) ELSE i - 1

\* last position of the run of \d that starts at i (i-1: no run)
RECURSIVE DigitRunEnd(_, _)
DigitRunEnd(s, i) == IF At(s, i) \in DigitChar THEN DigitRunEnd(s, i + 1) ELSE i - 1

NoMatch ==
    [ok |-> FALSE, start |-> 0, end |-> 0, typeStr |-> <<>>, min |-> <<>>, max |-> <<>>]

\* the match of lengthRegex that starts at position i, if there is one
MatchAt(s, i) ==
    LET j == TypeRunEnd(s, i + 1)
        k == DigitRunEnd(s, j + 2)
        l == DigitRunEnd(s, k + 2)
    IN  IF At(s, i) # "{" \/ j < i + 1 \/ At(s, j + 1) # ":" \/ k < j + 2
        THEN NoMatch
        ELSE IF At(s, k + 1) = "}"
        THEN [ok |-> TRUE, start |-> i, end |-> k + 1,
              typeStr |-> SubSeq(s, i + 1, j), min |-> SubSeq(s, j + 2, k),
              max |-> <<>>]
        ELSE IF At(s, k + 1) = "," /\ l >= k + 2 /\ At(s, l + 1) = "}"
        THEN [ok |-> TRUE, start |-> i, end |-> l + 1,
              typeStr |-> SubSeq(s, i + 1, j), min |-> SubSeq(s, j + 2, k),
              max |-> SubSeq(s, k + 2, l)]
        ELSE NoMatch

RECURSIVE FindFrom(_, _)
FindFrom(s, i) ==
    IF i > Len(s) THEN NoMatch
    ELSE IF MatchAt(s, i).ok THEN MatchAt(s, i)
    ELSE FindFrom(s, i + 1)

\* lengthRegex.FindStringSubmatch(s): the leftmost match
FindStringSubmatch(s) == FindFrom(s, 1)

RECURSIVE FindAllFrom(_, _)
FindAllFrom(s, i) ==
    LET m == FindFrom(s, i)
    IN  IF ~m.ok THEN <<>> ELSE <<m>> \o FindAllFrom(s, m.end + 1)

\* lengthRegex.FindAllStringSubmatch(s, -1): the non-overlapping matches
FindAllStringSubmatch(s) == FindAllFrom(s, 1)

(***************************************************************************)
(* The string under expansion is a sequence of cells: a cell is one        *)
(* character, of the pattern or generated, or one generated segment        *)
(* described by what the generator fixed about it.  A later search reads   *)
(* generated text like any other text, so a segment is kept as one cell    *)
(* only where no later search can tell its texts apart: between the braces *)
(* of a token it is also every text that is part of a type name, and       *)
(* directly after a '%' it is also a "d" and the rest.                     *)
(***************************************************************************)
\* class of a character of the character sets
ClassOf(ch) ==
    IF ch \in Range(letterChars) THEN "lower"
    ELSE IF ch \in Range(numberChars) THEN "digit"
    ELSE IF ch \in Range(specialChars) THEN "special"
    ELSE "other"

Classes(charset) == {ClassOf(charset[i]) : i \in DOMAIN charset}

vowels == <<"a", "e", "i", "o", "u">>

\* isVowel(r)
isVowel(r) == ToLowerRune(r) \in Range(vowels)

consonants ==
    <<"b", "c", "d", "f", "g", "h", "j", "k", "l", "m", "n", "p", "q", "r",
      "s", "t", "v", "w", "x", "y", "z">>

\* classes of the letters names are built from: vowels, consonants and the
\* lower-case entries of commonSyllables, initialConsonantClusters and
\* nameEndings
\* the classes of a name alphabet that also has the digits
NameLetterClassesDigits == Classes(vowels \o consonants \o numberChars)

NameLetterClasses == Classes(vowels \o consonants)

Lit(ch) ==
    [k |-> "lit", c |-> ch, len |-> 1, first |-> "", rest |-> {},
     upper |-> FALSE, sep |-> "", origin |-> "pattern",
     shows |-> "", cut |-> FALSE]

\* a segment of generateWordChars / generateChars: length, class of the
\* first character, classes among the other characters
CharsCell(kind, n, f, r) ==
    [k |-> kind, c |-> "", len |-> n, first |-> f, rest |-> r,
     upper |-> FALSE, sep |-> "", origin |-> "generator",
     shows |-> "", cut |-> FALSE]

\* a segment of generateName and its variations: length, capitalised or
\* not (unicode.ToUpper on the first letter), classes of the other letters
NameCell(n, u) ==
    [k |-> "name", c |-> "", len |-> n,
     first |-> IF u THEN "upper" ELSE "lower",
     rest |-> IF n > 1 THEN NameLetterClasses ELSE {},
     upper |-> u, sep |-> "", origin |-> "generator",
     shows |-> "", cut |-> FALSE]

\* a name that comes out of the map of generateCoordinatedNames
FromNameValues(cell) == [cell EXCEPT !.origin = "nameValues"]

\* a segment of generateWords: number of words, kinds of words, separator
WordsCell(n, kinds, sp) ==
    [k |-> "words", c |-> "", len |-> n, first |-> "", rest |-> kinds,
     upper |-> FALSE, sep |-> sp, origin |-> "generator",
     shows |-> "", cut |-> FALSE]

ToCells(s) == [i \in 1..Len(s) |-> Lit(s[i])]

\* the characters a search can see: a character is itself, a segment is
\* what is known of its text (shows), "" when that is nothing
View(cells) ==
    [i \in 1..Len(cells) |-> IF cells[i].c # "" THEN cells[i].c ELSE cells[i].shows]

\* strings.Replace(s, old, new, 1)
ReplaceFirst(cells, old, new) ==
    LET i == Index(View(cells), old)
    IN  IF i = 0 THEN cells
        ELSE SubSeq(cells, 1, i - 1) \o new
                \o SubSeq(cells, i + Len(old), Len(cells))

\* strings.Replace(s, old, new, -1)
RECURSIVE ReplaceAll(_, _, _)
ReplaceAll(cells, old, new) ==
    LET i == Index(View(cells), old)
    IN  IF i = 0 THEN cells
        ELSE SubSeq(cells, 1, i - 1) \o new
                \o ReplaceAll(SubSeq(cells, i + Len(old), Len(cells)), old, new)

\* a replacement of the domain placeholder that stops after the first one
ReplaceDomainPlaceholderFirst(cells, domain) ==
    IF Contains(View(cells), DomainPlaceholder)
    THEN ReplaceFirst(cells, DomainPlaceholder, ToCells(domain))
    ELSE cells

\* GenerateAlias, "Replace domain placeholder": one pass of strings.Replace
\* with n = -1 over the processed string, whose result is not scanned again
ReplaceDomainPlaceholder(cells, domain) ==
    IF Contains(View(cells), DomainPlaceholder)
    THEN ReplaceAll(cells, DomainPlaceholder, ToCells(domain))
    ELSE cells

(***************************************************************************)
(* Random choices: each generator is the set of results it can return.     *)
(***************************************************************************)
\* rand.Intn(n) panics when n <= 0
IntnPanics(n) == n <= 0

Intn(n) == 0..(n - 1)

\* randBetween panics inside Intn when max < min
RandBetweenPanics(min, max) == min # max /\ IntnPanics(max - min + 1)

RandBetweenWide(min, max) ==
    IF min = max THEN {min, min + 1}
    ELSE {v + min : v \in Intn(max - min + 2)}

\* randBetween(min, max)
RandBetween(min, max) ==
    IF min = max THEN {min}
    ELSE {v + min : v \in Intn(max - min + 1)}

\* generateRandomChars(charset, length): the classes that occur in it
GenerateRandomChars(charset, length) ==
    {r \in SUBSET Classes(charset) :
        Cardinality(r) <= length /\ (length > 0 => r # {})}

GenerateWordCharsAll(length) ==
    LET n == IF length <= 0 THEN defaultWordLength ELSE length
    IN  {CharsCell("word-chars", n, f, r) :
            f \in Classes(letterChars),
            r \in IF n > 1 THEN GenerateRandomChars(allCharsAllowed, n - 1) ELSE {{}}}

\* generateWordChars(length)
GenerateWordChars(length) ==
    LET n == IF length <= 0 THEN defaultWordLength ELSE length
    IN  {CharsCell("word-chars", n, f, r) :
            f \in Classes(letterChars),
            r \in IF n > 1 THEN GenerateRandomChars(wordCharsAllowed, n - 1) ELSE {{}}}

\* generateChars(length)
GenerateChars(length) ==
    LET n == IF length <= 0 THEN defaultCharLength ELSE length
    IN  {CharsCell("chars", n, f, r) :
            f \in Classes(letterChars),
            r \in IF n > 1 THEN GenerateRandomChars(allCharsAllowed, n - 1) ELSE {{}}}

\* commonNouns
commonNouns ==
    { <<"a", "p", "p", "l", "e">>, <<"a", "r", "r", "o", "w">>,
      <<"a", "u", "t", "u", "m", "n">>, <<"b", "e", "a", "c", "h">>,
      <<"b", "i", "r", "d">>, <<"b", "o", "o", "k">>, <<"c", "a", "k", "e">>,
      <<"c", "l", "o", "u", "d">>, <<"c", "o", "f", "f", "e", "e">>,
      <<"d", "i", "a", "m", "o", "n", "d">>, <<"d", "r", "e", "a", "m">>,
      <<"e", "a", "g", "l", "e">>, <<"e", "a", "r", "t", "h">>,
      <<"f", "i", "r", "e">>, <<"f", "o", "r", "e", "s", "t">>,
      <<"g", "a", "r", "d", "e", "n">>, <<"h", "o", "n", "e", "y">>,
      <<"i", "s", "l", "a", "n", "d">>, <<"j", "u", "n", "g", "l", "e">>,
      <<"l", "a", "k", "e">>, <<"l", "e", "a", "f">>,
      <<"l", "e", "m", "o", "n">>, <<"l", "i", "g", "h", "t">>,
      <<"l", "o", "t", "u", "s">>, <<"m", "a", "r", "b", "l", "e">>,
      <<"m", "e", "a", "d", "o", "w">>, <<"m", "o", "o", "n">>,
      <<"m", "o", "u", "n", "t", "a", "i", "n">>,
      <<"o", "c", "e", "a", "n">>, <<"p", "a", "n", "d", "a">>,
      <<"p", "a", "p", "e", "r">>, <<"p", "l", "a", "n", "e", "t">>,
      <<"r", "i", "v", "e", "r">>, <<"r", "o", "c", "k", "e", "t">>,
      <<"r", "o", "s", "e">>, <<"s", "h", "a", "d", "o", "w">>,
      <<"s", "i", "l", "v", "e", "r">>, <<"s", "k", "y">>,
      <<"s", "n", "o", "w">>, <<"s", "t", "a", "r">>,
      <<"s", "t", "o", "r", "m">>, <<"s", "u", "m", "m", "e", "r">>,
      <<"s", "u", "n", "s", "e", "t">>,
      <<"t", "h", "u", "n", "d", "e", "r">>, <<"t", "i", "g", "e", "r">>,
      <<"t", "r", "e", "e">>, <<"v", "a", "l", "l", "e", "y">>,
      <<"w", "a", "v", "e">>, <<"w", "i", "n", "d">>,
      <<"w", "i", "n", "t", "e", "r">>, <<"w", "o", "l", "f">>,
      <<"z", "e", "b", "r", "a">> }

\* adjectives
adjectives ==
    { <<"a", "m", "b", "e", "r">>, <<"a", "n", "c", "i", "e", "n", "t">>,
      <<"a", "z", "u", "r", "e">>, <<"b", "o", "l", "d">>,
      <<"b", "r", "a", "v", "e">>, <<"b", "r", "i", "g", "h", "t">>,
      <<"c", "a", "l", "m">>, <<"c", "l", "e", "v", "e", "r">>,
      <<"c", "o", "s", "m", "i", "c">>,
      <<"c", "r", "y", "s", "t", "a", "l">>,
      <<"c", "u", "r", "i", "o", "u", "s">>,
      <<"d", "a", "r", "i", "n", "g">>, <<"d", "e", "e", "p">>,
      <<"e", "a", "g", "e", "r">>, <<"e", "l", "e", "g", "a", "n", "t">>,
      <<"e", "m", "e", "r", "a", "l", "d">>,
      <<"e", "n", "c", "h", "a", "n", "t", "e", "d">>,
      <<"e", "n", "e", "r", "g", "e", "t", "i", "c">>,
      <<"g", "e", "n", "t", "l", "e">>, <<"g", "o", "l", "d", "e", "n">>,
      <<"h", "a", "p", "p", "y">>, <<"h", "i", "d", "d", "e", "n">>,
      <<"h", "u", "m", "b", "l", "e">>,
      <<"i", "n", "f", "i", "n", "i", "t", "e">>, <<"j", "a", "d", "e">>,
      <<"j", "o", "y", "f", "u", "l">>, <<"k", "i", "n", "d">>,
      <<"l", "o", "y", "a", "l">>, <<"l", "u", "c", "k", "y">>,
      <<"m", "a", "g", "i", "c", "a", "l">>,
      <<"m", "i", "g", "h", "t", "y">>, <<"m", "y", "s", "t", "i", "c">>,
      <<"n", "o", "b", "l", "e">>,
      <<"p", "e", "a", "c", "e", "f", "u", "l">>,
      <<"p", "r", "o", "u", "d">>, <<"p", "u", "r", "p", "l", "e">>,
      <<"q", "u", "i", "c", "k">>, <<"q", "u", "i", "e", "t">>,
      <<"r", "a", "d", "i", "a", "n", "t">>, <<"r", "o", "y", "a", "l">>,
      <<"r", "u", "b", "y">>, <<"r", "u", "s", "t", "i", "c">>,
      <<"s", "e", "r", "e", "n", "e">>, <<"s", "i", "l", "e", "n", "t">>,
      <<"s", "i", "l", "v", "e", "r">>, <<"s", "m", "o", "o", "t", "h">>,
      <<"s", "o", "l", "a", "r">>, <<"s", "w", "i", "f", "t">>,
      <<"t", "r", "a", "n", "q", "u", "i", "l">>,
      <<"v", "a", "l", "i", "a", "n", "t">>,
      <<"v", "i", "b", "r", "a", "n", "t">>, <<"w", "i", "l", "d">>,
      <<"w", "i", "s", "e">>, <<"z", "e", "a", "l", "o", "u", "s">> }

\* generateWords(count): adjective-noun pairs only when count < 3, one
\* separator for all joints when count > 1
GenerateWords(count) ==
    LET n == IF count <= 0 THEN defaultWordCount ELSE count
        kinds == IF n < 3 THEN {"adjnoun", "adj", "noun"} ELSE {"adj", "noun"}
        seps == IF n > 1 THEN {".", "_", "-", ""} ELSE {""}
    IN  {WordsCell(n, ks, sp) :
            ks \in {x \in SUBSET kinds : x # {} /\ Cardinality(x) <= n},
            sp \in seps}

(***************************************************************************)
(* generateName.  A partial name is its length and whether its last        *)
(* character is a vowel (isVowel: a, e, i, o, u).                          *)
(***************************************************************************)
Shape(n, v) == [len |-> n, vowel |-> v]

\* commonSyllables
commonSyllables ==
    { <<"a", "l">>, <<"a", "n">>, <<"a", "r">>, <<"a", "s">>,
      <<"a", "s", "h">>, <<"b", "a">>, <<"b", "e">>, <<"b", "e", "n">>,
      <<"b", "e", "r">>, <<"b", "e", "t", "h">>, <<"b", "i">>,
      <<"b", "l", "e">>, <<"b", "r", "i">>, <<"c", "a">>, <<"c", "a", "r">>,
      <<"c", "e">>, <<"c", "h", "a">>, <<"c", "h", "e">>, <<"c", "h", "i">>,
      <<"c", "h", "r", "i", "s">>, <<"c", "o">>, <<"c", "o", "n">>,
      <<"c", "y">>, <<"d", "a">>, <<"d", "a", "n">>, <<"d", "e">>,
      <<"d", "i">>, <<"d", "o">>, <<"d", "o", "n">>, <<"d", "y">>,
      <<"e", "d">>, <<"e", "l">>, <<"e", "n">>, <<"e", "r">>,
      <<"e", "t", "h">>, <<"e", "y">>, <<"f", "a">>, <<"f", "e">>,
      <<"f", "i">>, <<"f", "o">>, <<"f", "o", "r", "d">>,
      <<"f", "r", "e", "d">>, <<"f", "y">>, <<"g", "a">>, <<"g", "e">>,
      <<"g", "e", "o", "r">>, <<"g", "o">>, <<"g", "o", "r">>, <<"h", "a">>,
      <<"h", "a", "n">>, <<"h", "e">>, <<"h", "i">>, <<"h", "o">>,
      <<"h", "y">>, <<"i", "n">>, <<"i", "n", "g">>, <<"i", "s">>,
      <<"j", "a">>, <<"j", "a", "c", "k">>, <<"j", "a", "m">>, <<"j", "e">>,
      <<"j", "e", "n">>, <<"j", "i">>, <<"j", "o">>, <<"j", "o", "h", "n">>,
      <<"j", "o", "n">>, <<"j", "u">>, <<"k", "a">>, <<"k", "e">>,
      <<"k", "e", "n">>, <<"k", "i">>, <<"k", "i", "n">>, <<"l", "a">>,
      <<"l", "e">>, <<"l", "e", "n">>, <<"l", "i">>, <<"l", "i", "n">>,
      <<"l", "o">>, <<"l", "y">>, <<"m", "a">>, <<"m", "a", "r">>,
      <<"m", "a", "t", "t">>, <<"m", "e">>, <<"m", "e", "l">>, <<"m", "i">>,
      <<"m", "i", "c", "h">>, <<"m", "o">>, <<"n", "a">>, <<"n", "e">>,
      <<"n", "i">>, <<"n", "i", "c", "k">>, <<"n", "o">>, <<"n", "y">>,
      <<"p", "a">>, <<"p", "e">>, <<"p", "e", "r">>, <<"p", "h", "i">>,
      <<"p", "i">>, <<"p", "o">>, <<"r", "a">>, <<"r", "e">>, <<"r", "i">>,
      <<"r", "i", "c", "h">>, <<"r", "i", "c", "k">>, <<"r", "o">>,
      <<"r", "o", "b">>, <<"r", "o", "n">>, <<"r", "y">>, <<"s", "a">>,
      <<"s", "a", "m">>, <<"s", "e">>, <<"s", "h", "a">>, <<"s", "h", "e">>,
      <<"s", "i">>, <<"s", "o">>, <<"s", "o", "n">>, <<"s", "t", "e">>,
      <<"s", "t", "e", "r">>, <<"s", "t", "o", "n">>, <<"t", "a">>,
      <<"t", "e">>, <<"t", "e", "r">>, <<"t", "h", "o">>,
      <<"t", "h", "o", "m">>, <<"t", "i">>, <<"t", "o">>, <<"t", "o", "n">>,
      <<"t", "y">>, <<"v", "a">>, <<"v", "e">>, <<"v", "i">>,
      <<"v", "i", "c">>, <<"v", "o">>, <<"w", "a">>, <<"w", "e">>,
      <<"w", "i", "l">>, <<"w", "i", "n">>, <<"w", "i">>, <<"y", "a">>,
      <<"y", "e">>, <<"y", "o">>, <<"z", "a">> }

\* nameEndings
nameEndings ==
    { <<"a">>, <<"a", "h">>, <<"a", "n">>, <<"a", "n", "e">>, <<"a", "r">>,
      <<"a", "r", "d">>, <<"a", "s">>, <<"a", "y">>, <<"c", "e">>,
      <<"c", "h">>, <<"c", "k">>, <<"c", "y">>, <<"d">>, <<"d", "a", "n">>,
      <<"d", "o", "n">>, <<"d", "y">>, <<"e">>, <<"e", "d">>, <<"e", "l">>,
      <<"e", "n">>, <<"e", "r">>, <<"e", "r", "s">>, <<"e", "s">>,
      <<"e", "t", "t">>, <<"e", "y">>, <<"f", "e", "l", "d">>,
      <<"f", "o", "r", "d">>, <<"f", "y">>, <<"h">>, <<"i", "a">>,
      <<"i", "a", "n">>, <<"i", "e">>, <<"i", "n">>, <<"i", "n", "g">>,
      <<"i", "n", "s">>, <<"i", "o">>, <<"i", "s">>, <<"i", "t", "h">>,
      <<"l", "e">>, <<"l", "e", "y">>, <<"l", "y", "n">>, <<"m", "a", "n">>,
      <<"m", "e", "r">>, <<"n">>, <<"n", "a">>, <<"n", "e">>,
      <<"n", "e", "r">>, <<"n", "e", "y">>, <<"n", "i", "e">>, <<"n", "y">>,
      <<"o", "n">>, <<"o", "r">>, <<"r", "y">>, <<"s">>, <<"s", "o", "n">>,
      <<"s", "t", "o", "n">>, <<"s", "y">>, <<"t">>, <<"t", "h">>,
      <<"t", "o", "n">>, <<"t", "y">>, <<"u", "s">>, <<"y">>, <<"y", "n">> }

\* initialConsonantClusters
initialConsonantClusters ==
    { <<"b", "l">>, <<"b", "r">>, <<"c", "h">>, <<"c", "l">>, <<"c", "r">>,
      <<"d", "r">>, <<"f", "l">>, <<"f", "r">>, <<"g", "l">>, <<"g", "r">>,
      <<"p", "l">>, <<"p", "r">>, <<"s", "c">>, <<"s", "h">>, <<"s", "l">>,
      <<"s", "m">>, <<"s", "n">>, <<"s", "p">>, <<"s", "t">>, <<"s", "w">>,
      <<"t", "h">>, <<"t", "r">>, <<"t", "w">>, <<"w", "h">>, <<"w", "r">> }

\* "endConsonants", with "th" cut to "t" where it is used, and "endVowels"
endConsonants == {"n", "l", "r", "s", "t", "m", "y"}

endVowels == {"a", "e", "i", "o", "y"}

\* (length, last character is a vowel) over the entries of commonSyllables
SyllableShapes == {Shape(Len(y), isVowel(y[Len(y)])) : y \in commonSyllables}

\* the same over the entries of nameEndings
EndingShapes == {Shape(Len(e), isVowel(e[Len(e)])) : e \in nameEndings}

\* every entry of initialConsonantClusters has two letters
ClusterLength == 2

\* the three ways generateName starts a name
NameStarts ==
    SyllableShapes \cup {Shape(ClusterLength + 1, TRUE)} \cup {Shape(2, TRUE)}

\* one iteration of "for len(result) < length-2"
NameLoopStep(s, length) ==
    {Shape(s.len + y.len, y.vowel) :
        y \in {x \in SyllableShapes :
                s.len + 2 <= length /\ s.len + x.len <= length}}
    \cup {Shape(s.len + 1, ~s.vowel)}

\* the loop, run until no partial name is shorter than length-2
RECURSIVE NameLoop(_, _)
NameLoop(S, length) ==
    LET short == {s \in S : s.len < length - 2}
    IN  IF short = {} THEN S
        ELSE NameLoop((S \ short) \cup UNION {NameLoopStep(s, length) : s \in short},
                      length)

\* up to five draws of an ending: the first that fits is appended, and the
\* name stays as it is when all five draws are too long
NameEnding(s, length) ==
    IF s.len <= length - 2
    THEN {Shape(s.len + e.len, e.vowel) :
            e \in {x \in EndingShapes : s.len + x.len <= length}}
         \cup (IF \E x \in EndingShapes : s.len + x.len > length THEN {s} ELSE {})
    ELSE {s}

\* "if len(result) == length-1": one closing character.  After a vowel one
\* of endConsonants ("th" is cut to "t"), none of them a vowel of isVowel;
\* after a consonant one of a, e, i, o, y, and isVowel is false on "y"
NameLastChar(s, length) ==
    IF s.len # length - 1 THEN {s}
    ELSE {Shape(s.len + 1, isVowel(ch)) :
            ch \in IF s.vowel THEN endConsonants ELSE endVowels}

\* "if len(result) > length": trim
NameTrim(s, length) == IF s.len > length THEN length ELSE s.len

\* the lengths generateName can return once it has drawn the target length
NameLengths(length) ==
    {NameTrim(c, length) :
        c \in UNION {NameLastChar(e, length) :
            e \in UNION {NameEnding(s, length) : s \in NameLoop(NameStarts, length)}}}

\* the longest target length a call of generateName of this model can draw
MaxNameLength == IF MaxQual > maxLengthLimit THEN MaxQual ELSE maxLengthLimit

\* NameLengths, tabulated once: pairs <<target length, returned length>>
NameLengthTable ==
    UNION {{<<length, n>> : n \in NameLengths(length)} : length \in 1..MaxNameLength}

\* generateName(minLength, maxLength)
GenerateName(minLength, maxLength) ==
    LET mn0 == IF minLength <= 0 THEN defaultMinNameLength ELSE minLength
        mx0 == IF maxLength <= 0 THEN defaultMaxNameLength ELSE maxLength
        mn == IF mn0 > mx0 THEN mx0 ELSE mn0
        mx == IF mn0 > mx0 THEN mn0 ELSE mx0
    IN  {NameCell(p[2], u) :
            p \in {q \in NameLengthTable : q[1] \in RandBetween(mn, mx)},
            u \in BOOLEAN}

\* generateNameVariation(baseName, changeRatio): the replacements keep the
\* length and put in vowels and consonants; then one character is removed
\* (only from more than three), or one is inserted, or neither; the first
\* letter is capitalised as in the base name.  A letter inserted at the
\* front of a capitalised name leaves the old capital in second place: of
\* a base name of one letter the capital is then the only other letter.
GenerateNameVariation(baseName, changeRatio) ==
    {NameCell(n, baseName.upper) :
        n \in {baseName.len, baseName.len + 1}
              \cup (IF baseName.len > 3 THEN {baseName.len - 1} ELSE {})}
    \cup (IF baseName.upper
          THEN {[NameCell(baseName.len + 1, TRUE) EXCEPT
                    !.rest = IF baseName.len > 1
                             THEN NameLetterClasses \cup {"upper"}
                             ELSE {"upper"}]}
          ELSE {})

\* generateNameWithLength(baseName, changeRatio, minLength, maxLength):
\* a variation as it is when its length is in minLength..maxLength;
\* otherwise vowels and consonants are appended up to minLength, and what
\* is longer than maxLength is cut at a point of minLength..maxLength
\* inside the name, or at maxLength.  A capital in second place is the
\* only other letter of what is cut to two.
GenerateNameWithLength(baseName, changeRatio, minLength, maxLength) ==
    LET padded(v) ==
            IF v.len < minLength
            THEN [v EXCEPT !.len = minLength,
                           !.rest = @ \cup NameLetterClasses]
            ELSE v
        trimmed(v, n) ==
            [v EXCEPT !.len = n,
                      !.first = IF n > 0 THEN @ ELSE "",
                      !.rest = IF n <= 1 THEN {}
                               ELSE IF n = 2 /\ "upper" \in @ THEN {"upper"}
                               ELSE @]
    IN  UNION {
            IF v.len >= minLength /\ v.len <= maxLength THEN {v}
            ELSE IF padded(v).len > maxLength
                 THEN {trimmed(padded(v), n) :
                         n \in {i \in minLength..maxLength :
                                  i > 0 /\ i < padded(v).len}
                               \cup {maxLength}}
                 ELSE {padded(v)}
            : v \in GenerateNameVariation(baseName, changeRatio)}

\* the nickname of generateCoordinatedNames: a prefix of the base name
NicknameOf(baseName) ==
    IF baseName.len > 4
    THEN {NameCell(n + 3, baseName.upper) : n \in Intn(baseName.len - 3)}
    ELSE {baseName}

(***************************************************************************)
(* Generated text that a later search reads.  The searches are for the     *)
(* tokens of the known types and for "%d", so the texts that decide what   *)
(* a search finds are the parts of the type names, and a leading "d".      *)
(***************************************************************************)
\* the type names of the switch on typeStr that generate something
KnownTypes == {TypeWords, TypeWordChars, TypeChars} \cup NameTypeStrs

\* the texts that are part of a type name
Fragments ==
    UNION {{SubSeq(t, i, j) : i \in 1..Len(t), j \in 1..Len(t)} : t \in KnownTypes}
        \ {<<>>}

\* one generated character
GenChar(cell, ch) ==
    [cell EXCEPT !.c = ch, !.len = 1, !.first = ClassOf(ch), !.rest = {},
                 !.sep = "", !.shows = "", !.cut = FALSE]

\* a generated segment with the text t, character by character
GenChars(cell, t) == [i \in 1..Len(t) |-> GenChar(cell, t[i])]

\* generateWordChars, generateChars: the texts of Fragments that the
\* segment can be
CharsTexts(cell) ==
    {t \in Fragments :
        /\ Len(t) = cell.len
        /\ ClassOf(t[1]) = cell.first
        /\ {ClassOf(t[i]) : i \in 2..Len(t)} = cell.rest}

\* t is one entry of words[] of the kind
IsWord(t, kind) ==
    IF kind = "adj" THEN t \in adjectives
    ELSE IF kind = "noun" THEN t \in commonNouns
    ELSE \E i \in 1..(Len(t) - 1) :
            /\ SubSeq(t, 1, i) \in adjectives
            /\ SubSeq(t, i + 1, Len(t)) \in commonNouns

\* strings.Join(words, separator) = t: the sets of kinds of n words of the
\* kinds ks that give t
RECURSIVE WordsSplit(_, _, _, _)
WordsSplit(t, n, ks, sp) ==
    IF n = 1 THEN {{kd} : kd \in {x \in ks : IsWord(t, x)}}
    ELSE UNION {
            {{kd} \cup r :
                kd \in {x \in ks : IsWord(SubSeq(t, 1, i), x)},
                r \in WordsSplit(SubSeq(t, i + Len(sp) + 1, Len(t)), n - 1, ks, sp)}
            : i \in {j \in 1..(Len(t) - Len(sp) - 1) :
                        SubSeq(t, j + 1, j + Len(sp)) = sp}}

\* generateWords: the texts of Fragments that the segment can be
WordsTexts(cell) ==
    {t \in Fragments :
        cell.rest \in WordsSplit(t, cell.len, cell.rest,
                                 IF cell.sep = "" THEN <<>> ELSE <<cell.sep>>)}

\* generateWords: the first word can start with "d"
WordsStartD(cell) ==
    \E kd \in cell.rest :
        \E w \in IF kd = "noun" THEN commonNouns ELSE adjectives : w[1] = "d"

\* a letter of a name of which nothing is known
AnyLetter == "?"

\* the replacements (generateNameVariation: a vowel for a vowel, a consonant
\* for a consonant) that turn the letter ch into x: none, one, or {} when
\* there is no way
CharCost(ch, x) ==
    IF x = ch \/ x = AnyLetter THEN {0}
    ELSE IF x \in Range(letterChars) /\ isVowel(x) = isVowel(ch) THEN {1}
    ELSE {}

\* the same for the letters y put where pat has its letters after the p-th
RECURSIVE StrCost(_, _, _)
StrCost(y, pat, p) ==
    IF y = <<>> THEN {0}
    ELSE UNION {{c + d : d \in StrCost(Tail(y), pat, p + 1)} :
                    c \in CharCost(Head(y), At(pat, p + 1))}

\* a partial name x: x[1] letters, which agree with the first letters of
\* pat but for x[2] replacements, the last one a vowel or not (x[3]).  The
\* partial names that appending the letters y gives, k replacements at most
NameStep(pat, x, y, k) ==
    {<<x[1] + Len(y), x[2] + c, isVowel(y[Len(y)])>> :
        c \in {d \in StrCost(y, pat, x[1]) : x[2] + d <= k}}

\* the same for one letter drawn from chars
NameStepAny(pat, x, chars, k) ==
    UNION {NameStep(pat, x, <<ch>>, k) : ch \in chars}

\* the three ways generateName starts a name, as text
NameStartStrings ==
    commonSyllables
    \cup {cl \o <<v>> : cl \in initialConsonantClusters, v \in Range(vowels)}
    \cup {<<c, v>> : c \in Range(consonants), v \in Range(vowels)}

\* the starts that fit pat; a start longer than length is trimmed at the end
NameStartFit(pat, length, k) ==
    UNION {NameStep(pat, <<0, 0, FALSE>>,
                    IF Len(y) > length THEN SubSeq(y, 1, length) ELSE y, k) :
            y \in NameStartStrings}

\* "for len(result) < length-2", on the partial names that fit pat
RECURSIVE NameLoopFit(_, _, _, _)
NameLoopFit(S, pat, length, k) ==
    LET short == {x \in S : x[1] < length - 2}
        next(x) ==
            UNION {NameStep(pat, x, y, k) :
                    y \in {z \in commonSyllables : x[1] + Len(z) <= length}}
            \cup NameStepAny(pat, x,
                             IF x[3] THEN Range(consonants) ELSE Range(vowels), k)
    IN  IF short = {} THEN S
        ELSE NameLoopFit((S \ short) \cup UNION {next(x) : x \in short},
                         pat, length, k)

\* the ending, on a partial name that fits pat
NameEndingFit(x, pat, length, k) ==
    IF x[1] <= length - 2
    THEN UNION {NameStep(pat, x, e, k) :
                    e \in {z \in nameEndings : x[1] + Len(z) <= length}}
         \cup (IF \E z \in nameEndings : x[1] + Len(z) > length THEN {x} ELSE {})
    ELSE {x}

\* the closing character, on a partial name that fits pat
NameLastFit(x, pat, length, k) ==
    IF x[1] # length - 1 THEN {x}
    ELSE NameStepAny(pat, x, IF x[3] THEN endConsonants ELSE endVowels, k)

\* generateName with the target length can build, before the capital, a
\* name that k replacements at most turn into pat
NameFits(pat, length, k) ==
    /\ Len(pat) <= length
    /\ \E x \in UNION {NameLastFit(e, pat, length, k) :
                e \in UNION {NameEndingFit(y, pat, length, k) :
                    y \in NameLoopFit(NameStartFit(pat, length, k), pat, length, k)}} :
            x[1] = Len(pat)

\* generateName(minLength, maxLength) can do so
CanName(pat, minLength, maxLength, k) ==
    LET mn0 == IF minLength <= 0 THEN defaultMinNameLength ELSE minLength
        mx0 == IF maxLength <= 0 THEN defaultMaxNameLength ELSE maxLength
        mn == IF mn0 > mx0 THEN mx0 ELSE mn0
        mx == IF mn0 > mx0 THEN mn0 ELSE mx0
    IN  \E length \in RandBetween(mn, mx) :
            /\ <<length, Len(pat)>> \in NameLengthTable
            /\ NameFits(pat, length, k)

\* the texts of Fragments of the length of the segment that a name without
\* a capital can be
LowerTexts(cell) ==
    IF cell.upper THEN {}
    ELSE {t \in Fragments : Len(t) = cell.len /\ \A i \in 1..Len(t) : t[i] # "-"}

\* generateName(minLength, maxLength): the texts of Fragments that the
\* segment can be
NameTexts(cell, minLength, maxLength) ==
    {t \in LowerTexts(cell) : CanName(t, minLength, maxLength, 0)}

\* baseName of generateCoordinatedNames can be a name that k replacements
\* turn into pat
BaseFits(pat, k) == CanName(pat, defaultMinNameLength, defaultMaxNameLength, k)

\* generateNameVariation(baseName, changeRatio), changeRatio in tenths: the
\* texts of Fragments that the segment can be.  The replacements come
\* first; then a letter is removed, or a letter is inserted before a letter
\* of the other class, or neither
VariationTexts(cell, baseName, changeRatio) ==
    LET k == (baseName.len * changeRatio) \div 10
    IN  {t \in LowerTexts(cell) :
            \/ /\ Len(t) = baseName.len
               /\ BaseFits(t, k)
            \/ /\ Len(t) = baseName.len - 1
               /\ baseName.len > 3
               /\ \E p \in 1..baseName.len :
                    BaseFits(SubSeq(t, 1, p - 1) \o <<AnyLetter>> \o SubSeq(t, p, Len(t)), k)
            \/ /\ Len(t) = baseName.len + 1
               /\ \E p \in 1..baseName.len :
                    /\ isVowel(t[p]) # isVowel(t[p + 1])
                    /\ BaseFits(SubSeq(t, 1, p - 1) \o SubSeq(t, p + 1, Len(t)), k)}

\* the nickname, baseName[:nickLen]: the texts of Fragments that it can be
NicknameTexts(cell, baseName) ==
    {t \in LowerTexts(cell) :
        BaseFits(t \o [i \in 1..(baseName.len - Len(t)) |-> AnyLetter], 0)}

\* what is known of a segment whose text is not part of a type name: each
\* character is one of [a-zA-Z-], or one is not
Shows(cell) ==
    IF cell.k = "name" THEN {TypeRunMark}
    ELSE IF cell.k = "words"
    THEN IF cell.sep \in {".", "_"} THEN {""} ELSE {TypeRunMark}
    ELSE IF "digit" \in cell.rest THEN {""}
    ELSE IF "special" \in cell.rest THEN {TypeRunMark, ""}
    ELSE {TypeRunMark}

\* the forms of a generated segment for the searches to come: texts are
\* the texts of Fragments that it can be, startsD says that its text can
\* start with "d", inBraces and afterPercent say where it is put
Concretize(cell, texts, startsD, inBraces, afterPercent) ==
    LET seen == IF inBraces THEN {[cell EXCEPT !.shows = x] : x \in Shows(cell)}
                ELSE {cell}
        rest(x) == IF cell.k = "words" \/ cell.len > 1
                   THEN <<[x EXCEPT !.cut = TRUE]>> ELSE <<>>
    IN  {<<x>> : x \in seen}
        \cup (IF inBraces THEN {GenChars(cell, t) : t \in texts} ELSE {})
        \cup (IF afterPercent /\ startsD
              THEN {<<GenChar(cell, "d")>> \o rest(x) : x \in seen}
              ELSE {})

\* the places where t is in v
Occurrences(v, t) == {i \in 1..(Len(v) - Len(t) + 1) : SubSeq(v, i, i + Len(t) - 1) = t}

\* the positions of the tokens that are complete and are yet to be replaced
\* as a whole: the keys, the tokens of processSimplePatterns and the matches
\* of lengthRegex with a known type
TokenPositions(v, keys) ==
    UNION {UNION {i..(i + Len(t) - 1) : i \in Occurrences(v, t)} :
                t \in keys \cup {WordsPattern, WordCharsPattern, CharsPattern}}
    \cup UNION {m.start..m.end :
                m \in {x \in Range(FindAllStringSubmatch(v)) : x.typeStr \in KnownTypes}}

\* the text put in place of positions s..e can come to stand in a token:
\* there is a "{" before it and a "}" or ":" after it that are not of a
\* complete token, with no character of the pattern in between that a
\* token cannot have
InBraces(cells, s, e, keys) ==
    LET v == View(cells)
        done == TokenPositions(v, keys)
        hard == {j \in 1..Len(v) :
                    /\ cells[j].k = "lit"
                    /\ v[j] \notin TypeChar \cup DigitChar \cup {"{", "}", ":", ","}}
    IN  /\ \E l \in 1..(s - 1) :
            /\ v[l] = "{"
            /\ l \notin done
            /\ \A j \in l..s : j \notin hard
        /\ \E r \in (e + 1)..Len(v) :
            /\ v[r] \in {"}", ":"}
            /\ r \notin done
            /\ \A j \in e..r : j \notin hard

\* a key stands behind two "{": a value can complete a key that then
\* stands between braces itself
DeepBraces(cells, keys) ==
    LET v == View(cells)
        done == TokenPositions(v, keys)
    IN  \E key \in keys : \E i \in Occurrences(v, key) :
            \E l \in 1..(i - 1), m \in 1..(i - 1) :
                /\ l < m
                /\ v[l] = "{" /\ v[m] = "{"
                /\ l \notin done /\ m \notin done
                /\ \A j \in l..i :
                        ~(cells[j].k = "lit"
                          /\ v[j] \notin TypeChar \cup DigitChar \cup {"{", "}", ":", ","})

\* the keys whose value can come to stand in a token
BracedKeys(cells, keys) ==
    IF DeepBraces(cells, keys) THEN keys
    ELSE {key \in keys : \E i \in Occurrences(View(cells), key) :
                            InBraces(cells, i, i + Len(key) - 1, keys)}

\* the text put in place of position s follows a "%"
AfterPercent(cells, s) == At(View(cells), s - 1) = "%"

(***************************************************************************)
(* GenerateAlias: one call, stage by stage.                                *)
(***************************************************************************)
\* domain := parts[1]
DomainOf(mail) == SplitAll(mail, "@")[2]

\* identifyNameTypes(pattern): the keys of the returned map
identifyNameTypes(pat) ==
    {key \in {FirstNamePattern, LastNamePattern, MiddleNamePattern,
              NicknamePattern, NamesPattern} : Contains(pat, key)}
    \cup {Brace(m.typeStr) :
            m \in {x \in Range(FindAllStringSubmatch(pat)) : x.typeStr \in NameTypeStrs}}

\* minLength, maxLength of a match: Atoi, single number, swap
MatchLengths(m) ==
    LET n1 == Atoi(m.min)
        n2 == IF m.max # <<>> THEN Atoi(m.max) ELSE n1
    IN  [min |-> IF n1 > n2 THEN n2 ELSE n1, max |-> IF n1 > n2 THEN n1 ELSE n2]

\* changeRatio of generateCoordinatedNames, in tenths
ChangeRatio(typeStr) ==
    IF typeStr = TypeFirstName THEN 3
    ELSE IF typeStr = TypeLastName THEN 5
    ELSE IF typeStr = TypeMiddleName THEN 7
    ELSE IF typeStr = TypeNickname THEN 4
    ELSE 2

\* generateCoordinatedNames, len(nameTypes) > 1: the values one key can get
CoordinatedName(key, baseName) ==
    LET m == FindStringSubmatch(key)
    IN  IF m.ok
        THEN GenerateNameWithLength(baseName, ChangeRatio(m.typeStr),
                                    MatchLengths(m).min, MatchLengths(m).max)
        ELSE IF key = NicknamePattern THEN NicknameOf(baseName)
        ELSE IF key = NamesPattern THEN {baseName}
        ELSE GenerateNameVariation(baseName, ChangeRatio(SubSeq(key, 2, Len(key) - 1)))

\* generateCoordinatedNames, otherwise: the values one key can get
SingleName(key) ==
    LET m == FindStringSubmatch(key)
    IN  IF m.ok THEN GenerateName(MatchLengths(m).min, MatchLengths(m).max)
        ELSE GenerateName(defaultMinNameLength, defaultMaxNameLength)

\* the texts of Fragments that the value of a key can be.  Each value is
\* taken by itself: that two values are made of one base name is kept in
\* their lengths and capitals only
NameValueTexts(key, cell, coordinated, baseName) ==
    IF ~coordinated
    THEN NameTexts(cell, defaultMinNameLength, defaultMaxNameLength)
    ELSE IF key = NicknamePattern /\ baseName.len > 4 THEN NicknameTexts(cell, baseName)
    ELSE IF key \in {NicknamePattern, NamesPattern}
    THEN {t \in LowerTexts(cell) : BaseFits(t, 0)}
    ELSE VariationTexts(cell, baseName, ChangeRatio(SubSeq(key, 2, Len(key) - 1)))

\* the maps generateCoordinatedNames can return for the keys and a base
\* name, each value in the forms the searches to come can tell apart;
\* braced are the keys whose value can come to stand in a token
RECURSIVE NameMaps(_, _, _, _, _)
NameMaps(keys, coordinated, baseName, braced, afterPercent) ==
    IF keys = {} THEN {<<>>}
    ELSE LET key == CHOOSE x \in keys : TRUE
         IN  {[x \in DOMAIN f \cup {key} |-> IF x = key THEN v ELSE f[x]] :
                f \in NameMaps(keys \ {key}, coordinated, baseName,
                               braced, afterPercent),
                v \in UNION {
                        Concretize(FromNameValues(x),
                                   IF key \in braced
                                   THEN NameValueTexts(key, x, coordinated, baseName)
                                   ELSE {},
                                   ~x.upper, key \in braced, afterPercent) :
                        x \in IF coordinated THEN CoordinatedName(key, baseName)
                              ELSE SingleName(key)}}

\* "for namePattern, value := range nameValues", in one order of the keys
RECURSIVE SubstituteNameValues(_, _, _)
SubstituteNameValues(cells, keys, values) ==
    IF keys = {} THEN cells
    ELSE LET key == CHOOSE x \in keys : TRUE
         IN  SubstituteNameValues(ReplaceAll(cells, key, values[key]),
                                  keys \ {key}, values)

\* the same in every order of the keys: the order of a range over a map is
\* not fixed, and it shows when a value completes another key
RECURSIVE SubstituteInOrders(_, _, _)
SubstituteInOrders(cells, keys, values) ==
    IF keys = {} THEN {cells}
    ELSE UNION {SubstituteInOrders(ReplaceAll(cells, key, values[key]),
                                   keys \ {key}, values) : key \in keys}

\* the strings the first loop of replaceTemplateVariables can leave
SubstitutedNames(cells, keys, values) ==
    IF \E key \in keys : \E i \in 1..Len(values[key]) : values[key][i].c # ""
    THEN SubstituteInOrders(cells, keys, values)
    ELSE {SubstituteNameValues(cells, keys, values)}

\* the lengths after "minLength <= 0" and "maxLength > 50"
ClampLengths(b) ==
    [min |-> IF b.min <= 0 THEN 1 ELSE b.min,
     max |-> IF b.max > maxLengthLimit THEN maxLengthLimit ELSE b.max]

\* the switch on typeStr: a call of randBetween that panics
ReplacementPanics(typeStr, b) ==
    typeStr \in {TypeWordChars, TypeChars} /\ RandBetweenPanics(b.min, b.max)

\* the forms of the result of generateWords
WordsForms(x, inBraces, afterPercent) ==
    Concretize(x, IF inBraces THEN WordsTexts(x) ELSE {}, WordsStartD(x),
               inBraces, afterPercent)

\* the forms of the result of generateWordChars or generateChars: the
\* first character is a letter
CharsForms(x, inBraces, afterPercent) ==
    Concretize(x, IF inBraces THEN CharsTexts(x) ELSE {}, TRUE,
               inBraces, afterPercent)

\* the switch on typeStr: the replacements it can produce for the match of
\* lengthRegex, matched; the default case puts matches[0] back
Replacements(typeStr, b, matched, inBraces, afterPercent) ==
    IF typeStr = TypeWords
    THEN UNION {WordsForms(x, inBraces, afterPercent) : x \in GenerateWords(b.min)}
    ELSE IF typeStr = TypeWordChars
    THEN UNION {CharsForms(x, inBraces, afterPercent) :
                    x \in UNION {GenerateWordChars(n) : n \in RandBetween(b.min, b.max)}}
    ELSE IF typeStr = TypeChars
    THEN UNION {CharsForms(x, inBraces, afterPercent) :
                    x \in UNION {GenerateChars(n) : n \in RandBetween(b.min, b.max)}}
    ELSE IF typeStr \in NameTypeStrs
    THEN UNION {Concretize(x, IF inBraces THEN NameTexts(x, b.min, b.max) ELSE {},
                           ~x.upper, inBraces, afterPercent) :
                    x \in GenerateName(b.min, b.max)}
    ELSE {matched}

\* the default case of the switch generates nothing
KnownType(typeStr) == typeStr \in KnownTypes

(***************************************************************************)
(* The calls of GenerateAlias this model makes.                            *)
(***************************************************************************)
MainEmail == <<"u", "@", "d">>

Emails == {<<>>, <<"b", "a", "d">>, MainEmail, <<"a", "@", "b", "@", "c">>}

TypeFoo == <<"f", "o", "o">>

TokenTypes ==
    {TypeWords, TypeWordChars, TypeChars, TypeFoo} \cup NameTypeStrs

\* "{type:N}"
ExactToken(typeStr, n) == <<"{">> \o typeStr \o <<":">> \o Itoa(n) \o <<"}">>

\* "{type:N,M}"
RangeToken(typeStr, n, m) ==
    <<"{">> \o typeStr \o <<":">> \o Itoa(n) \o <<",">> \o Itoa(m) \o <<"}">>

Suffix == <<"@">> \o DomainPlaceholder

RangeVals == (0..MaxRange) \cup {maxLengthLimit, MaxQual - 1, MaxQual}

\* the token types tried with every length
FullTypes == {TypeWords, TypeWordChars, TypeChars, TypeFirstName, TypeFoo}

\* one token, then "@%d"
TokenPatterns ==
    {ExactToken(t, n) \o Suffix : t \in FullTypes, n \in 0..MaxQual}
    \cup {ExactToken(t, n) \o Suffix : t \in TokenTypes, n \in RangeVals}
    \cup {RangeToken(t, n, m) \o Suffix : t \in FullTypes, n \in RangeVals, m \in RangeVals}
    \cup {Brace(t) \o Suffix : t \in TokenTypes}

MixedPatterns ==
    { <<>>,
      <<"p", "l", "a", "i", "n">>,
      FirstNamePattern \o <<".">> \o LastNamePattern \o Suffix,
      FirstNamePattern \o LastNamePattern \o MiddleNamePattern
            \o NicknamePattern \o NamesPattern \o Suffix,
      ExactToken(TypeFirstName, 4) \o <<".">> \o LastNamePattern \o Suffix,
      ExactToken(TypeFirstName, 4) \o <<".">> \o ExactToken(TypeLastName, 6) \o Suffix,
      FirstNamePattern \o <<"-">> \o FirstNamePattern \o Suffix,
      <<"x", ".">> \o WordsPattern \o <<"-">> \o WordCharsPattern \o <<"_">>
            \o CharsPattern \o Suffix \o <<".">> \o DomainPlaceholder,
      ExactToken(TypeFoo, 3) \o ExactToken(TypeChars, 2) \o Suffix,
      ExactToken(TypeChars, 2) \o <<"-">> \o ExactToken(TypeWords, 2) \o Suffix }

\* callers' addresses whose domain is "e", "x%" and the empty string
DomainEmails ==
    {MainEmail, <<"u", "@", "e">>, <<"u", "@", "x", "%">>, <<"u", "@">>}

\* patterns of literal text and domain placeholders only
DomainPatterns ==
    { DomainPlaceholder,
      DomainPlaceholder \o <<".">> \o DomainPlaceholder,
      <<"%">> \o DomainPlaceholder,
      DomainPlaceholder \o <<"d">>,
      <<"a", "%">> \o DomainPlaceholder \o <<"d">> }

\* the legacy placeholder of the defaults
LegacyPlaceholder == <<"%", "s">>

\* the default alias generation patterns of the configuration
DefaultPatterns ==
    { <<"s", "q", "u", "i", "r", "r", "e", "l", ".",
        "f", "e", "n", "n", "e", "c", "k", "@">> \o LegacyPlaceholder,
      FirstNamePattern \o <<".">> \o LastNamePattern \o <<"@">>
            \o LegacyPlaceholder }

\* an address whose domain has the shape of a placeholder: "u@{words}"
BraceDomainEmail == <<"u", "@">> \o WordsPattern

\* "user@example.com"
UserEmail ==
    <<"u", "s", "e", "r", "@",
      "e", "x", "a", "m", "p", "l", "e", ".", "c", "o", "m">>

\* a token directly after "%", and tokens between the braces of another
NestedPatterns ==
    { <<"%">> \o ExactToken(TypeChars, 1) \o Suffix,
      <<"%">> \o WordsPattern \o Suffix,
      <<"%">> \o FirstNamePattern \o Suffix,
      <<"{", "w", "o", "r", "d">> \o ExactToken(TypeChars, 1) \o <<"}">> \o Suffix,
      <<"{", "c", "h", "a", "r", "s">> \o ExactToken(TypeWordChars, 1)
            \o <<":", "2", "}">> \o Suffix,
      <<"{", "c">> \o NamesPattern \o <<"s", "}">> \o Suffix,
      <<"{", "c", "h", "a", "r">> \o CharsPattern \o <<"}">> \o Suffix,
      <<"{">> \o FirstNamePattern \o <<"}", ".">> \o LastNamePattern \o Suffix }

AliasInputs ==
    {[email |-> MainEmail, pattern |-> p] :
        p \in TokenPatterns \cup MixedPatterns \cup DefaultPatterns
               \cup NestedPatterns}
    \cup {[email |-> UserEmail,
           pattern |-> FirstNamePattern \o <<".">> \o LastNamePattern \o Suffix]}
    \cup {[email |-> BraceDomainEmail, pattern |-> WordsPattern \o Suffix]}
    \cup {[email |-> e, pattern |-> p] : e \in DomainEmails, p \in DomainPatterns}
    \cup {[email |-> e, pattern |-> p] :
            e \in Emails, p \in {<<>>, ExactToken(TypeChars, 2) \o Suffix}}

InitAlias ==
    /\ cacheTTL = 0
    /\ method = <<"I", "m", "a", "p">>
    /\ now = 0
    /\ cache = [h \in {} |-> 0]
    /\ req = [w \in Workers |-> IdleReq]
    /\ settled = [h \in Hashes |-> -1]
    /\ cleanupNow = -1
    /\ InitLockVars
    /\ \E in \in AliasInputs : email = in.email /\ pattern = in.pattern
    /\ stage = "start"
    /\ processed = <<>>
    /\ nameTypes = {}
    /\ generated = 0
    /\ iterations = 0

\* GenerateAlias: the checks of the arguments, processed := pattern and
\* identifyNameTypes(pattern)
\* an order that scans the string again after the domain is in it
NextStageRescan(st) ==
    CASE st = "names" -> "qualified"
      [] st = "qualified" -> "simple"
      [] st = "simple" -> "domain"
      [] st = "domain" -> "simple"

\* GenerateAlias and replaceTemplateVariables: the statement sequence, name
\* values, then the lengthRegex loop, then processSimplePatterns, then the
\* domain placeholder, then return
NextStage(st) ==
    CASE st = "names" -> "qualified"
      [] st = "qualified" -> "simple"
      [] st = "simple" -> "domain"
      [] st = "domain" -> "done"

Validate ==
    /\ stage = "start"
    /\ IF GenerateAliasError(email, pattern) # "nil"
       THEN /\ stage' = "error"
            /\ UNCHANGED <<processed, nameTypes>>
       ELSE /\ stage' = "names"
            /\ processed' = ToCells(pattern)
            /\ nameTypes' = identifyNameTypes(pattern)
    /\ UNCHANGED <<email, pattern, generated, iterations>>
    /\ UNCHANGED authVars
    /\ UNCHANGED lockVars
    /\ UNCHANGED vr

\* generateCoordinatedNames(nameTypes), and the first loop of
\* replaceTemplateVariables, which puts the name values in
GenerateCoordinatedNames ==
    /\ stage = "names"
    /\ LET v == View(processed)
           inBraces == BracedKeys(processed, nameTypes)
           afterPercent == Contains(v, <<"%", "{">>)
       IN  IF Cardinality(nameTypes) > 1
           THEN /\ \E baseName \in GenerateName(defaultMinNameLength, defaultMaxNameLength) :
                    \E nameValues \in NameMaps(nameTypes, TRUE, baseName,
                                               inBraces, afterPercent) :
                        processed' \in SubstitutedNames(processed, nameTypes, nameValues)
                /\ generated' = generated + 1 + Cardinality(nameTypes)
           ELSE /\ \E nameValues \in NameMaps(nameTypes, FALSE, NameCell(0, FALSE),
                                               inBraces, afterPercent) :
                        processed' \in SubstitutedNames(processed, nameTypes, nameValues)
                /\ generated' = generated + Cardinality(nameTypes)
    /\ stage' = NextStage(stage)
    /\ UNCHANGED <<email, pattern, nameTypes, iterations>>
    /\ UNCHANGED authVars
    /\ UNCHANGED lockVars
    /\ UNCHANGED vr

\* replaceTemplateVariables: one iteration of the loop over lengthRegex
\* that found a match
QualifiedReplace ==
    /\ stage = "qualified"
    /\ iterations' = IF iterations < MaxIterations THEN iterations + 1
                      ELSE iterations
    /\ LET matches == FindStringSubmatch(View(processed))
           matched == SubSeq(View(processed), matches.start, matches.end)
           b == ClampLengths(MatchLengths(matches))
       IN  /\ matches.ok
           /\ IF ReplacementPanics(matches.typeStr, b)
              THEN /\ stage' = "panic"
                   /\ UNCHANGED <<processed, generated>>
              ELSE /\ \E replacement \in
                            Replacements(matches.typeStr, b,
                                SubSeq(processed, matches.start, matches.end),
                                InBraces(processed, matches.start, matches.end, {}),
                                AfterPercent(processed, matches.start)) :
                        processed' = ReplaceFirst(processed, matched, replacement)
                   /\ generated' = generated + (IF KnownType(matches.typeStr) THEN 1 ELSE 0)
                   /\ stage' = stage
    /\ UNCHANGED <<email, pattern, nameTypes>>
    /\ UNCHANGED authVars
    /\ UNCHANGED lockVars
    /\ UNCHANGED vr

\* replaceTemplateVariables: the loop over lengthRegex finds no match
QualifiedDone ==
    /\ stage = "qualified"
    /\ ~FindStringSubmatch(View(processed)).ok
    /\ stage' = NextStage(stage)
    /\ UNCHANGED <<email, pattern, processed, nameTypes, generated, iterations>>
    /\ UNCHANGED authVars
    /\ UNCHANGED lockVars
    /\ UNCHANGED vr

\* processSimplePatterns: one iteration that found a token
SimpleReplace ==
    /\ stage = "simple"
    /\ LET v == View(processed)
           token == IF Contains(v, WordsPattern) THEN WordsPattern
                    ELSE IF Contains(v, WordCharsPattern) THEN WordCharsPattern
                    ELSE CharsPattern
           i == Index(v, token)
           inBraces == InBraces(processed, i, i + Len(token) - 1, {})
           afterPercent == AfterPercent(processed, i)
       IN  /\ Contains(v, token)
           /\ \E x \in IF token = WordsPattern THEN GenerateWords(defaultWordCount)
                        ELSE IF token = WordCharsPattern
                        THEN GenerateWordChars(defaultWordLength)
                        ELSE GenerateChars(defaultCharLength) :
                \E replacement \in IF token = WordsPattern
                                    THEN WordsForms(x, inBraces, afterPercent)
                                    ELSE CharsForms(x, inBraces, afterPercent) :
                    processed' = ReplaceFirst(processed, token, replacement)
    /\ generated' = generated + 1
    /\ UNCHANGED <<email, pattern, stage, nameTypes, iterations>>
    /\ UNCHANGED authVars
    /\ UNCHANGED lockVars
    /\ UNCHANGED vr

\* processSimplePatterns: no token left
SimpleDone ==
    /\ stage = "simple"
    /\ LET v == View(processed)
       IN  ~(Contains(v, WordsPattern) \/ Contains(v, WordCharsPattern)
                \/ Contains(v, CharsPattern))
    /\ stage' = NextStage(stage)
    /\ UNCHANGED <<email, pattern, processed, nameTypes, generated, iterations>>
    /\ UNCHANGED authVars
    /\ UNCHANGED lockVars
    /\ UNCHANGED vr

\* GenerateAlias: the domain placeholder, and return processed, nil
ReplaceDomain ==
    /\ stage = "domain"
    /\ processed' = ReplaceDomainPlaceholder(processed, DomainOf(email))
    /\ stage' = NextStage(stage)
    /\ UNCHANGED <<email, pattern, nameTypes, generated, iterations>>
    /\ UNCHANGED authVars
    /\ UNCHANGED lockVars
    /\ UNCHANGED vr

NextAlias ==
    \/ Validate
    \/ GenerateCoordinatedNames
    \/ QualifiedReplace
    \/ QualifiedDone
    \/ SimpleReplace
    \/ SimpleDone
    \/ ReplaceDomain

SpecAlias == InitAlias /\ [][NextAlias]_vars

(***************************************************************************)
(* generateCoordinatedNames for one key of a coordinated pattern, and      *)
(* generateNameVariation statement by statement, on characters.            *)
(***************************************************************************)
\* changesToMake := int(float64(len(runes)) * changeRatio), ratio in tenths
ChangesToMake(baseName, changeRatio) == (Len(baseName) * changeRatio) \div 10

\* the keys whose value is generateNameVariation(baseName, ratio)
UsesVariation(role) == role \in {TypeFirstName, TypeLastName, TypeMiddleName}

\* baseName[:rand.Intn(len(baseName)-3)+3], or baseName
NicknamePrefixes(baseName) ==
    IF Len(baseName) > 4
    THEN {SubSeq(baseName, 1, n + 3) : n \in Intn(Len(baseName) - 3)}
    ELSE {baseName}

\* a removal that is allowed on every name
CanRemoveAny(runes) == Len(runes) > 0

\* "&& len(runes) > 3"
CanRemove(runes) == Len(runes) > 3

\* append(runes[:pos], runes[pos+1:]...), pos counted from 1
RemoveAt(runes, pos) ==
    SubSeq(runes, 1, pos - 1) \o SubSeq(runes, pos + 1, Len(runes))

\* append(runes[:pos], append([]rune{newChar}, runes[pos:]...)...)
InsertAt(runes, pos, ch) ==
    SubSeq(runes, 1, pos - 1) \o <<ch>> \o SubSeq(runes, pos, Len(runes))

\* "Keep consistent capitalization with base name"
Capitalize(runes, baseName) ==
    [runes EXCEPT ![1] = IF IsUpperRune(baseName[1])
                         THEN ToUpperRune(@) ELSE ToLowerRune(@)]

\* base names and the key whose value is derived from them
Kai == <<"K", "a", "i">>
Ana == <<"a", "n", "a">>
Toby == <<"T", "o", "b", "y">>
Kevan == <<"K", "e", "v", "a", "n">>

VariationInputs ==
    {[baseName |-> b, role |-> t] : b \in {Kai, Ana}, t \in NameTypeStrs}
    \cup {[baseName |-> b, role |-> t] :
            b \in {Toby, Kevan},
            t \in {TypeFirstName, TypeNickname, TypeNames}}

InitVariation ==
    /\ cacheTTL = 0
    /\ method = <<"I", "m", "a", "p">>
    /\ now = 0
    /\ cache = [h \in {} |-> 0]
    /\ req = [w \in Workers |-> IdleReq]
    /\ settled = [h \in Hashes |-> -1]
    /\ cleanupNow = -1
    /\ email = <<>>
    /\ pattern = <<>>
    /\ stage = "idle"
    /\ processed = <<>>
    /\ nameTypes = {}
    /\ generated = 0
    /\ iterations = 0
    /\ lk = [t \in LockThreads |-> IdleThread]
    /\ readers = {}
    /\ writer = "none"
    /\ access = NoAccess
    /\ \E in \in VariationInputs :
            vr = [IdleVariation EXCEPT !.baseName = in.baseName,
                                       !.role = in.role,
                                       !.runes = in.baseName,
                                       !.stage = "start"]

VariationFrame ==
    /\ UNCHANGED authVars
    /\ UNCHANGED aliasVars
    /\ UNCHANGED lockVars

\* generateCoordinatedNames, "Handle standard patterns without explicit
\* length": the switch on the key
VBegin ==
    /\ vr.stage = "start"
    /\ IF UsesVariation(vr.role)
       THEN vr' = [vr EXCEPT !.stage = "replace",
                             !.changesToMake =
                                ChangesToMake(vr.baseName, ChangeRatio(vr.role))]
       ELSE IF vr.role = TypeNickname
       THEN \E p \in NicknamePrefixes(vr.baseName) :
                vr' = [vr EXCEPT !.stage = "done", !.runes = p]
       ELSE vr' = [vr EXCEPT !.stage = "done"]
    /\ VariationFrame

\* generateNameVariation: one iteration of the loop over changesToMake
VReplace(pos, ch) ==
    /\ vr.stage = "replace"
    /\ vr.i < vr.changesToMake
    /\ pos \in 1..Len(vr.runes)
    /\ ch \in IF isVowel(vr.runes[pos]) THEN Range(vowels) ELSE Range(consonants)
    /\ vr' = [vr EXCEPT !.runes[pos] = ch,
                        !.i = @ + 1,
                        !.last = [pos |-> pos, old |-> vr.runes[pos], new |-> ch]]
    /\ VariationFrame

\* generateNameVariation: the loop ends
VReplaceDone ==
    /\ vr.stage = "replace"
    /\ vr.i = vr.changesToMake
    /\ vr' = [vr EXCEPT !.stage = "resize"]
    /\ VariationFrame

\* generateNameVariation: "Remove a random character"
VRemove(pos) ==
    /\ vr.stage = "resize"
    /\ CanRemove(vr.runes)
    /\ pos \in 1..Len(vr.runes)
    /\ vr' = [vr EXCEPT !.runes = RemoveAt(vr.runes, pos),
                        !.removed = TRUE,
                        !.stage = "capitalize"]
    /\ VariationFrame

\* generateNameVariation: "Add a random character" of the other class
VInsert(pos, ch) ==
    /\ vr.stage = "resize"
    /\ pos \in 1..Len(vr.runes)
    /\ ch \in IF isVowel(vr.runes[pos]) THEN Range(consonants) ELSE Range(vowels)
    /\ vr' = [vr EXCEPT !.runes = InsertAt(vr.runes, pos, ch),
                        !.inserted = TRUE,
                        !.stage = "capitalize"]
    /\ VariationFrame

\* generateNameVariation: neither branch is taken
VKeep ==
    /\ vr.stage = "resize"
    /\ vr' = [vr EXCEPT !.stage = "capitalize"]
    /\ VariationFrame

\* generateNameVariation: the capitalisation and the return
VCapitalize ==
    /\ vr.stage = "capitalize"
    /\ vr' = [vr EXCEPT !.runes = Capitalize(vr.runes, vr.baseName),
                        !.stage = "done"]
    /\ VariationFrame

NextVariation ==
    \/ VBegin
    \/ \E pos \in 1..Len(vr.runes), ch \in Range(letterChars) : VReplace(pos, ch)
    \/ VReplaceDone
    \/ \E pos \in 1..Len(vr.runes) : VRemove(pos)
    \/ \E pos \in 1..Len(vr.runes), ch \in Range(letterChars) : VInsert(pos, ch)
    \/ VKeep
    \/ VCapitalize

SpecVariation == InitVariation /\ [][NextVariation]_vars

(***************************************************************************)
(* Properties of the request handler and the credential cache.             *)
(***************************************************************************)
\* the step in which worker w tests the entry it read from the cache
LookupStep(w) == req[w].pc = "test" /\ req'[w].pc # "test"

\* the step in which worker w stores its success in the cache
WriteStep(w) == req[w].pc = "write" /\ req'[w].pc # "write"

\* the step in which the verifier call of worker w returns
VerifyStep(w) == req[w].pc = "verify" /\ req'[w].pc # "verify"

\* C1: CreateAlias is invoked only after Authenticate returned nil and
\* GenerateAlias returned an alias, with that alias as address and the
\* username of the header as destination; a request with a missing or
\* malformed header or a failed authentication ends with 401 and has called
\* neither GenerateAlias nor CreateAlias. A request whose GenerateAlias
\* panicked returned no alias: it has not called CreateAlias either.
C1_CreateOnlyAfterAuthAndGenerate ==
    \A w \in Workers :
        LET r == req[w]
            colon == IndexChar(r.hdr, ":")
        IN  /\ "CreateAlias" \in Range(r.calls) =>
                /\ r.calls = <<"Authenticate", "GenerateAlias", "CreateAlias">>
                /\ r.authRes = "nil"
                /\ r.alias # NoAlias
                /\ r.created.address = r.alias
                /\ colon > 0
                /\ r.created.goto = SubSeq(r.hdr, 1, colon - 1)
            /\ "CreateAlias" \notin Range(r.calls) => r.created = NoArgs
            /\ "GenerateAlias" \in Range(r.calls) => r.authRes = "nil"
            /\ r.panicked =>
                /\ r.calls = <<"Authenticate", "GenerateAlias">>
                /\ r.alias = NoAlias /\ r.status = 0
            /\ (r.http /\ r.pc = "done" /\ (colon = 0 \/ r.authRes = "err")) =>
                /\ r.status = 401
                /\ "GenerateAlias" \notin Range(r.calls)
                /\ "CreateAlias" \notin Range(r.calls)

\* C1 witness: a request that was authenticated and answered 200 after
\* CreateAlias was called with the generated alias
C1_Witness ==
    \E w \in Workers :
        /\ req[w].pc = "done" /\ req[w].status = 200
        /\ req[w].created = [address |-> req[w].alias, goto |-> <<"u", "@", "d">>]

\* C2 as stated: a success through the verifier at time t answers every
\* later call for its credentials from the cache until t+TTL and sends the
\* first call at or after t+TTL to the verifier. The answers that a stored
\* success has fixed in this way stand: while its entry is still live, the
\* write of another success does not move the expiry.
C2_Original ==
    [][\A w \in Workers :
        LET h == HashOf(req[w])
        IN  (WriteStep(w) /\ CacheHit(CacheGet(cache, h), now)) =>
                cache'[h] = cache[h]]_vars

\* C2 amended: after a success at time t stored by a call that no other
\* Authenticate call for the same credentials overlapped, every call for
\* these credentials whose cache check happens before t+TTL is answered
\* from the cache (no verifier call) and the first whose cache check
\* happens at or after t+TTL goes to the remote verifier.
C2_Amended ==
    [][\A w \in Workers :
        (LookupStep(w) /\ settled[HashOf(req[w])] >= 0) =>
            /\ (now < settled[HashOf(req[w])] + cacheTTL)
                    <=> (req'[w].path = "hit")
            /\ req'[w].path = "hit" =>
                    (req'[w].pc = "done" /\ req'[w].authRes = "nil"
                        /\ req'[w].verifierCalls = 0)
            /\ req'[w].path # "hit" => req'[w].pc = "verify"]_vars

\* C2 witness: one call was answered from the cache inside the TTL and a
\* later call for the same credentials read the same entry, found it
\* expired and went to the verifier
C2_Witness ==
    /\ req["w1"].path = "hit" /\ req["w1"].pc = "done"
    /\ req["w2"].path = "miss" /\ req["w2"].verifierCalls = 1
    /\ ~req["w2"].overlapped
    /\ HashOf(req["w1"]) = HashOf(req["w2"])
    /\ HashOf(req["w1"]) \in DOMAIN cache
    /\ now >= cache[HashOf(req["w1"])]

\* C3 as stated: a rejected or unsupported verification returns the error
\* and leaves the cache unchanged, and it leaves no entry that would answer
\* the next call for the same credentials from the cache.
C3_Original ==
    [][\A w \in Workers :
        (VerifyStep(w) /\ req'[w].verdict # "ok") =>
            /\ req'[w].authRes = "err" /\ req'[w].pc = "done"
            /\ cache' = cache
            /\ ~CacheHit(CacheGet(cache', HashOf(req[w])), now)]_vars

\* C3 amended: a rejected or unsupported verification returns the error and
\* leaves the cache unchanged; unless another Authenticate call for these
\* credentials overlapped the failed one, no entry answers the next call
\* for them from the cache, so that call goes to the verifier again.
C3_Amended ==
    [][\A w \in Workers :
        (VerifyStep(w) /\ req'[w].verdict # "ok") =>
            /\ req'[w].authRes = "err" /\ req'[w].pc = "done"
            /\ cache' = cache
            /\ ~req[w].overlapped =>
                    ~CacheHit(CacheGet(cache', HashOf(req[w])), now)]_vars

\* C3 witness: a call was rejected by the verifier with caching enabled and
\* the next call for the same credentials is at the verifier again
C3_Witness ==
    /\ IsCacheEnabled(cacheTTL)
    /\ req["w1"].pc = "done" /\ req["w1"].verdict = "reject"
    /\ req["w2"].pc = "verify" /\ ~req["w2"].overlapped
    /\ HashOf(req["w1"]) = HashOf(req["w2"])
    /\ HashOf(req["w1"]) \notin DOMAIN cache

\* C4: with TTL = 0 no call is answered from the cache, every call reaches
\* the verifier, the cache map stays empty, CacheStats returns (0, 0) and
\* CleanupCache returns 0.
C4_TTLZeroDisablesCache ==
    cacheTTL = 0 =>
        /\ DOMAIN cache = {}
        /\ CacheStatsRet(cache, now, cacheTTL) = <<0, 0>>
        /\ CleanupCacheRet(cache, now, cacheTTL) = 0
        /\ cleanupNow = -1
        /\ \A w \in Workers :
            /\ req[w].path # "hit"
            /\ req[w].pc \notin {"test", "write"}
            /\ (req[w].authRes # "none" /\ SupportedMethod(method)) =>
                    req[w].verifierCalls = 1

\* C4 witness: with TTL = 0 two calls with the same credentials have both
\* succeeded through the verifier, one after the other
C4_Witness ==
    /\ cacheTTL = 0 /\ now > 0
    /\ \A w \in Workers :
        /\ req[w].pc = "done" /\ req[w].authRes = "nil"
        /\ req[w].verifierCalls = 1
    /\ HashOf(req["w1"]) = HashOf(req["w2"])

(***************************************************************************)
(* Properties of the alias template expander.                              *)
(***************************************************************************)
\* a call with a non-empty address that has exactly one '@' and a
\* non-empty pattern
ValidCall ==
    /\ email # <<>>
    /\ pattern # <<>>
    /\ Cardinality({i \in DOMAIN email : email[i] = "@"}) = 1

\* the text that follows the expansion of a pattern of TokenPatterns
AfterToken == ToCells(<<"@">> \o DomainOf(email))

\* the qualified tokens left in the string under expansion
QualifiedTokens(cells) == Len(FindAllStringSubmatch(View(cells)))

\* the simple tokens left in the string under expansion
SimpleTokens(cells) ==
    Cardinality({i \in 1..Len(cells) :
        \E t \in {WordsPattern, WordCharsPattern, CharsPattern} :
            /\ i + Len(t) - 1 <= Len(cells)
            /\ SubSeq(View(cells), i, i + Len(t) - 1) = t})

\* C5: for every valid address and every non-empty pattern GenerateAlias
\* terminates and returns an alias without error, also when the pattern
\* holds a qualified token of an unrecognised type: no step of the call
\* panics, every iteration of the loop over qualified tokens leaves fewer
\* qualified tokens than it found, and every iteration of the loop over
\* simple tokens leaves fewer simple tokens than it found.
C5_AlwaysReturnsAlias ==
    [][ValidCall =>
        /\ stage' # "panic"
        /\ (stage = "qualified" /\ stage' = "qualified") =>
                QualifiedTokens(processed') < QualifiedTokens(processed)
        /\ (stage = "simple" /\ stage' = "simple") =>
                SimpleTokens(processed') < SimpleTokens(processed)]_vars

\* C6: GenerateAlias returns an error and no alias exactly when the address
\* is empty, the pattern is empty or the address does not hold exactly one
\* '@', and it does so before any name or token is generated.
C6_InvalidArgumentsRejected ==
    /\ ~ValidCall =>
            /\ stage \in {"start", "error"}
            /\ processed = <<>> /\ nameTypes = {} /\ generated = 0
    /\ ValidCall => stage # "error"

\* C6 witness: an address with two '@' was rejected with a non-empty pattern
C6_Witness ==
    /\ stage = "error"
    /\ email = <<"a", "@", "b", "@", "c">>
    /\ pattern # <<>>

\* C7: a name token {type:N} with 1 <= N <= 50 expands to exactly N
\* characters, and {type:N,M} with both bounds in 1..50 expands to a length
\* between the smaller and the larger bound.
C7_NameTokenLengths ==
    stage = "done" =>
        \A t \in NameTypeStrs :
            /\ \A n \in 1..maxLengthLimit :
                pattern = ExactToken(t, n) \o Suffix =>
                    (processed[1].k = "name" /\ processed[1].len = n)
            /\ \A n \in RangeVals \cap (1..maxLengthLimit),
                  m \in RangeVals \cap (1..maxLengthLimit) :
                pattern = RangeToken(t, n, m) \o Suffix =>
                    /\ processed[1].k = "name"
                    /\ processed[1].len >= (IF n < m THEN n ELSE m)
                    /\ processed[1].len <= (IF n < m THEN m ELSE n)

\* C8: {word-chars:N} with 1 <= N <= 50 expands to exactly N characters,
\* the first a lower-case letter and every other one a lower-case letter or
\* a digit.
C8_WordCharsExactLength ==
    stage = "done" =>
        \A n \in 1..maxLengthLimit :
            pattern = ExactToken(TypeWordChars, n) \o Suffix =>
                /\ processed = <<processed[1]>> \o AfterToken
                /\ processed[1].k = "word-chars"
                /\ processed[1].len = n
                /\ processed[1].first = "lower"
                /\ processed[1].rest \subseteq {"lower", "digit"}

\* C8 witness: {word-chars:50} was expanded to 50 characters with letters
\* and digits after the first
C8_Witness ==
    /\ stage = "done"
    /\ pattern = ExactToken(TypeWordChars, maxLengthLimit) \o Suffix
    /\ processed[1].len = maxLengthLimit
    /\ processed[1].rest = {"lower", "digit"}

\* C9: {chars:N,M} with both bounds in 1..50, in either order, expands to a
\* length between the smaller and the larger bound, the first character a
\* lower-case letter and every other one a lower-case letter, a digit or
\* one of '.', '-', '_'.
C9_CharsRangeLength ==
    stage = "done" =>
        \A n \in RangeVals \cap (1..maxLengthLimit),
           m \in RangeVals \cap (1..maxLengthLimit) :
            pattern = RangeToken(TypeChars, n, m) \o Suffix =>
                /\ processed = <<processed[1]>> \o AfterToken
                /\ processed[1].k = "chars"
                /\ processed[1].len >= (IF n < m THEN n ELSE m)
                /\ processed[1].len <= (IF n < m THEN m ELSE n)
                /\ processed[1].first = "lower"
                /\ processed[1].rest \subseteq {"lower", "digit", "special"}

\* C9 witness: {chars:50,1}, the bounds in descending order, was expanded
\* to a length strictly between the bounds with all three classes present
C9_Witness ==
    /\ stage = "done"
    /\ pattern = RangeToken(TypeChars, maxLengthLimit, 1) \o Suffix
    /\ processed[1].len > 1 /\ processed[1].len < maxLengthLimit
    /\ processed[1].rest = {"lower", "digit", "special"}

\* C10: for a word-chars, chars or name token whose qualifier exceeds 50
\* GenerateAlias returns an alias in which the expansion of the token has at
\* most 50 characters.
C10_LengthCeiling ==
    \A t \in {TypeWordChars, TypeChars} \cup NameTypeStrs :
        /\ \A n \in (maxLengthLimit + 1)..MaxQual :
            pattern = ExactToken(t, n) \o Suffix =>
                /\ stage # "panic"
                /\ stage = "done" => processed[1].len <= maxLengthLimit
        /\ \A n \in RangeVals, m \in RangeVals :
            (pattern = RangeToken(t, n, m) \o Suffix
                /\ (n > maxLengthLimit \/ m > maxLengthLimit)) =>
                /\ stage # "panic"
                /\ stage = "done" => processed[1].len <= maxLengthLimit

\* C11: a qualified token of length 0 falls back to the default of its type
\* and GenerateAlias returns normally: {words:0} gives one word,
\* {word-chars:0} and {chars:0} give 10 characters, a name token gives a
\* name of 3 to 10 characters.
C11_ZeroLengthDefaults ==
    \A t \in {TypeWords, TypeWordChars, TypeChars} \cup NameTypeStrs :
        pattern = ExactToken(t, 0) \o Suffix =>
            /\ stage # "panic"
            /\ stage = "done" =>
                /\ t = TypeWords =>
                    (processed[1].k = "words" /\ processed[1].len = defaultWordCount)
                /\ t = TypeWordChars =>
                    (processed[1].k = "word-chars" /\ processed[1].len = defaultWordLength)
                /\ t = TypeChars =>
                    (processed[1].k = "chars" /\ processed[1].len = defaultCharLength)
                /\ t \in NameTypeStrs =>
                    /\ processed[1].k = "name"
                    /\ processed[1].len >= defaultMinNameLength
                    /\ processed[1].len <= defaultMaxNameLength

\* the name-type placeholder occurrences of a pattern, bare or qualified
NameOccurrences(pat) ==
    Cardinality({i \in 1..Len(pat) :
        \E t \in NameTypeStrs :
            /\ i + Len(t) + 1 <= Len(pat)
            /\ SubSeq(pat, i, i + Len(t) + 1) = Brace(t)})
    + Cardinality({i \in 1..Len(pat) :
        MatchAt(pat, i).ok /\ MatchAt(pat, i).typeStr \in NameTypeStrs})

\* C12: when a pattern has two or more name-type placeholder occurrences,
\* bare or qualified, every name in the returned alias comes out of the map
\* of generateCoordinatedNames, that is from the one base name of the
\* expansion; none is generated on its own.
C12_NamesShareOneBase ==
    (stage = "done" /\ NameOccurrences(pattern) >= 2) =>
        \A i \in 1..Len(processed) :
            processed[i].k = "name" => processed[i].origin = "nameValues"

\* the placeholders of a type outside the vocabulary that the calls of this
\* model use
UnknownTokens ==
    {Brace(TypeFoo)}
    \cup {ExactToken(TypeFoo, n) : n \in 0..MaxQual}
    \cup {RangeToken(TypeFoo, n, m) : n \in RangeVals, m \in RangeVals}

\* C13: a placeholder of a type outside the vocabulary, bare {foo} or
\* qualified {foo:3}, is in the returned alias unchanged and at the same
\* place, and the literal characters around it are kept in order: the call
\* returns the pattern with only the domain marker replaced, and it is out
\* of the loop over qualified tokens after one iteration per qualified token.
C13_UnknownTokensPassThrough ==
    \A tok \in UnknownTokens :
        pattern = tok \o Suffix =>
            /\ stage # "panic"
            /\ iterations <= QualifiedTokens(ToCells(pattern))
            /\ stage = "done" =>
                    processed = ToCells(tok \o <<"@">> \o DomainOf(email))

\* strings.Split(s, sep) and strings.Join(parts, sep) over character tuples
RECURSIVE SplitOn(_, _)
SplitOn(s, sep) ==
    LET i == Index(s, sep)
    IN  IF i = 0 THEN <<s>>
        ELSE <<SubSeq(s, 1, i - 1)>>
                \o SplitOn(SubSeq(s, i + Len(sep), Len(s)), sep)

RECURSIVE Join(_, _)
Join(parts, sep) ==
    IF Len(parts) = 1 THEN parts[1]
    ELSE parts[1] \o sep \o Join(Tail(parts), sep)

\* a domain that cannot complete a placeholder with the text next to it
SafeDomain(domain) ==
    /\ domain # <<>>
    /\ domain[1] # "d"
    /\ domain[Len(domain)] # "%"
    /\ ~Contains(domain, DomainPlaceholder)

\* C14 as stated: every %d of the pattern is replaced by the caller's domain,
\* the same text at every position, and for a domain that does not contain
\* %d the returned alias contains no %d.
C14_Original ==
    (stage = "done" /\ pattern \in DomainPatterns) =>
        /\ processed = ToCells(Join(SplitOn(pattern, DomainPlaceholder),
                                    DomainOf(email)))
        /\ ~Contains(DomainOf(email), DomainPlaceholder) =>
                ~Contains(View(processed), DomainPlaceholder)

\* C14 amended: every %d of the pattern, found from the left without overlap,
\* is replaced by the caller's domain, the same text at every position; the
\* result is not scanned again, and the returned alias contains no %d when
\* the domain is not empty, does not start with "d", does not end with "%"
\* and does not contain %d.
C14_Amended ==
    (stage = "done" /\ pattern \in DomainPatterns) =>
        /\ processed = ToCells(Join(SplitOn(pattern, DomainPlaceholder),
                                    DomainOf(email)))
        /\ SafeDomain(DomainOf(email)) =>
                ~Contains(View(processed), DomainPlaceholder)

\* a pattern with two domain placeholders has been expanded for domain "e"
C14_Witness ==
    /\ stage = "done"
    /\ pattern = DomainPlaceholder \o <<".">> \o DomainPlaceholder
    /\ DomainOf(email) = <<"e">>
    /\ processed = ToCells(<<"e", ".", "e">>)

\* C15: the legacy %s placeholder is replaced by a random string of 10
\* characters, so an alias returned for a default pattern of the
\* configuration does not contain the literal text %s.
C15_LegacyPlaceholderReplaced ==
    (stage = "done" /\ pattern \in DefaultPatterns) =>
        ~Contains(View(processed), LegacyPlaceholder)

\* C16: for 2 <= N (up to the ceiling of 50), {words:N} expands to N items
\* joined by one separator out of ".", "_", "-" and the empty string, and
\* every item is one word of the adjective or of the noun vocabulary, never
\* an adjective and a noun written together.
C16_WordsAreSingleWords ==
    \A n \in 2..maxLengthLimit :
        (stage = "done" /\ pattern = ExactToken(TypeWords, n) \o Suffix) =>
            /\ processed = <<processed[1]>> \o AfterToken
            /\ processed[1].k = "words"
            /\ processed[1].len = n
            /\ processed[1].sep \in {".", "_", "-", ""}
            /\ processed[1].rest \subseteq {"adj", "noun"}

\* the patterns of bare name placeholders: one name type alone, and two and
\* five name types that are coordinated
BareNamePatterns ==
    {Brace(t) \o Suffix : t \in NameTypeStrs}
    \cup { FirstNamePattern \o <<".">> \o LastNamePattern \o Suffix,
           FirstNamePattern \o LastNamePattern \o MiddleNamePattern
                \o NicknamePattern \o NamesPattern \o Suffix }

\* C17: a bare name placeholder expands to a name of 3 to 10 characters,
\* when it is the only name type of the pattern and when it is coordinated
\* with other name types.
C17_BareNameLengths ==
    (stage = "done" /\ pattern \in BareNamePatterns) =>
        \A i \in 1..Len(processed) :
            processed[i].k = "name" =>
                /\ processed[i].len >= defaultMinNameLength
                /\ processed[i].len <= defaultMaxNameLength

\* a generated name that is not empty and has only the letters A-Z and a-z
LettersOnlyName(cell) ==
    /\ cell.k = "name"
    /\ cell.len >= 1
    /\ cell.first \in {"upper", "lower"}
    /\ cell.rest \subseteq {"upper", "lower"}

\* C18: for every outcome of the random choices,
\* GenerateAlias("user@example.com", "{firstname}.{lastname}@%d") returns
\* <name>.<name>@example.com where both names are non-empty and have only
\* the letters A-Z and a-z (^[A-Za-z]+\.[A-Za-z]+@example\.com$).
C18_FirstLastAtExample ==
    (/\ email = UserEmail
     /\ pattern = FirstNamePattern \o <<".">> \o LastNamePattern \o Suffix) =>
        /\ stage \notin {"error", "panic"}
        /\ stage = "done" =>
            /\ Len(processed) = 15
            /\ LettersOnlyName(processed[1])
            /\ processed[2] = Lit(".")
            /\ LettersOnlyName(processed[3])
            /\ SubSeq(processed, 4, 15) = ToCells(SubSeq(UserEmail, 5, 16))

\* C18 witness: the call has returned with a capitalised first name and a
\* last name of more than one letter, followed by "@example.com"
C18_Witness ==
    /\ email = UserEmail
    /\ pattern = FirstNamePattern \o <<".">> \o LastNamePattern \o Suffix
    /\ stage = "done"
    /\ Len(processed) = 15
    /\ processed[1].k = "name" /\ processed[1].first = "upper"
    /\ processed[3].k = "name" /\ processed[3].len > 1
    /\ View(SubSeq(processed, 4, 15)) = SubSeq(UserEmail, 5, 16)

\* no entry of the cache has an expiry that has passed
NoneExpired == \A k \in DOMAIN cache : ~(now > cache[k])

\* what a run of CleanupCache that reads the clock at time t returns and
\* leaves
SweepFrame(t) ==
    LET after == CleanupCacheMap(cache, t, cacheTTL)
        removed == CleanupCacheRet(cache, t, cacheTTL)
    IN  /\ removed = Cardinality(DOMAIN cache) - Cardinality(DOMAIN after)
        /\ NoneExpired =>
                /\ removed = 0
                /\ after = cache
                /\ CacheStatsRet(after, now, cacheTTL)
                        = CacheStatsRet(cache, now, cacheTTL)

\* the step in which CleanupCache, having read the clock, sweeps the map
CleanupStep == cleanupNow >= 0 /\ cleanupNow' = -1

\* C19: CleanupCache returns the number of entries it removed and removes
\* only entries whose expiry has passed; run when no entry is expired it
\* returns 0 and leaves every entry, and the size CacheStats reports,
\* unchanged. The sweep removes keys only, each with an expiry that had
\* passed when CleanupCache read the clock, as many as the count returned,
\* and none when no entry is expired; no other step removes an entry.
C19_CleanupRemovesOnlyExpired ==
    [][ /\ \A t \in 0..now : SweepFrame(t)
        /\ CleanupStep =>
                /\ DOMAIN cache' \subseteq DOMAIN cache
                /\ \A k \in DOMAIN cache' : cache'[k] = cache[k]
                /\ \A k \in DOMAIN cache \ DOMAIN cache' :
                        cleanupNow > cache[k] /\ now > cache[k]
                /\ NoneExpired => cache' = cache
                /\ CleanupCacheRet(cache, cleanupNow, cacheTTL)
                        = Cardinality(DOMAIN cache \ DOMAIN cache')
        /\ ~CleanupStep => DOMAIN cache \subseteq DOMAIN cache' ]_vars

\* C19 witness: the entry of a stored success is gone from the cache while
\* an entry that is not expired is still there
C19_Witness ==
    /\ IsCacheEnabled(cacheTTL)
    /\ \E h \in Hashes : settled[h] >= 0 /\ h \notin DOMAIN cache
    /\ \E h \in DOMAIN cache : ~(now > cache[h])

\* the Mailcow API reports that the alias was not created: a status other
\* than 200, or a result of type danger or error in the body
Refused(resp) ==
    /\ resp.sent
    /\ \/ resp.status # 200
       \/ resp.readable /\ resp.type \in {"danger", "error"}

\* C20: CreateAlias returns an error whenever the Mailcow API reports that
\* the alias was not created, also for a status 200 whose body carries a
\* result of type danger or error in the array-of-objects shape, so
\* handleNewAlias never answers 200 with an alias that Mailcow refused.
C20_RefusedAliasNotAnswered ==
    \A w \in Workers :
        ("CreateAlias" \in Range(req[w].calls) /\ Refused(req[w].mailcow)) =>
            /\ CreateAliasError(req[w].mailcow) = "err"
            /\ req[w].status # 200

\* how often a call occurs among the calls of one request
Count(calls, name) == Cardinality({i \in 1..Len(calls) : calls[i] = name})

\* C21: when CreateAlias fails, handleNewAlias answers 500 with the error
\* of CreateAlias and without an alias, and it does not retry: CreateAlias
\* and GenerateAlias are each called at most once in a request.
C21_CreateFailureSurfacedOnce ==
    \A w \in Workers :
        LET r == req[w]
        IN  /\ Count(r.calls, "CreateAlias") <= 1
            /\ Count(r.calls, "GenerateAlias") <= 1
            /\ ("CreateAlias" \in Range(r.calls)
                    /\ CreateAliasError(r.mailcow) = "err") =>
                /\ r.pc = "done"
                /\ r.status = 500
                /\ r.body.text = "Failed to create alias in Mailcow"
                /\ r.body.alias = NoAlias

\* C21 witness: Mailcow answered with status 500 and the handler has
\* answered 500 after one CreateAlias
C21_Witness ==
    \E w \in Workers :
        /\ req[w].pc = "done" /\ req[w].status = 500
        /\ req[w].mailcow.sent /\ req[w].mailcow.status = 500
        /\ req[w].calls = <<"Authenticate", "GenerateAlias", "CreateAlias">>
        /\ req[w].body = ErrorBody("Failed to create alias in Mailcow")

\* the entries that still answer an Authenticate call at time t
LiveEntries(c, t) == {<<h, c[h]>> : h \in {k \in DOMAIN c : t < c[k]}}

\* a step of CleanupCache that deleted something
SweepStep == cache' # cache /\ req' = req

\* the step of worker w from the expiry test of Authenticate
LeavesLookup(w) == req[w].pc = "test" /\ req'[w].pc # "test"

\* C22: sweeping never changes authentication outcomes. A sweep leaves the
\* entries that answer Authenticate, now and at every later time, as they
\* were; an Authenticate call is answered from the cache, without the
\* verifier, exactly when the entry it read is among them at the time of
\* its test, and it goes to the verifier otherwise, whether the entry is
\* expired or swept away.
C22_SweepKeepsOutcomes ==
    [][ /\ SweepStep =>
                \A t \in now..MaxTime :
                    LiveEntries(cache', t) = LiveEntries(cache, t)
        /\ \A w \in Workers :
                LeavesLookup(w) =>
                    LET e == req[w].entry
                        live == e.found /\ now < e.Expiry
                    IN  /\ live => /\ req'[w].path = "hit"
                                   /\ req'[w].authRes = "nil"
                                   /\ req'[w].pc = "done"
                                   /\ req'[w].verifierCalls = 0
                        /\ ~live => /\ req'[w].path = "miss"
                                    /\ req'[w].pc = "verify" ]_vars

\* C22 witness: a call read no entry for credentials whose success had been
\* stored before it: a sweep removed the entry in between, and the call is
\* about to go to the verifier as it would for the expired entry
C22_Witness ==
    /\ IsCacheEnabled(cacheTTL)
    /\ \E w \in Workers :
        LET h == HashOf(req[w])
        IN  /\ req[w].pc = "test" /\ ~req[w].entry.found
            /\ ~req[w].overlapped
            /\ settled[h] >= 0 /\ now >= settled[h] + cacheTTL
            /\ h \notin DOMAIN cache

\* the positions between acquiring and releasing cacheMutex
SharedSections == {"read", "runlock", "stats_read", "stats_runlock"}

ExclusiveSections == {"write", "unlock", "clean_loop", "clean_unlock"}

\* C23: under any interleaving of Authenticate, CacheStats and CleanupCache
\* the map is read by Authenticate and CacheStats only with the shared lock
\* held and written (and swept) only with the exclusive lock held, the
\* exclusive lock excludes every other holder, and an Authenticate call
\* whose verifier call is in flight holds neither lock: the lock is held
\* only by goroutines inside the short sections around one map access.
C23_LockDiscipline ==
    /\ access.kind = "read" => access.shared
    /\ access.kind = "write" => access.exclusive
    /\ writer # "none" => readers = {}
    /\ \A t \in LockThreads :
        /\ t \in readers => lk[t].pc \in SharedSections
        /\ writer = t => lk[t].pc \in ExclusiveSections
        /\ lk[t].pc = "verify" => (t \notin readers /\ writer # t)

\* C23 witness: while the verifier call of one request is in flight, the
\* other request has read the map under the shared lock
C23_Witness ==
    /\ lk["a1"].pc = "verify"
    /\ lk["a2"].pc = "runlock"
    /\ readers = {"a2"}
    /\ access = [thread |-> "a2", kind |-> "read", shared |-> TRUE,
                 exclusive |-> FALSE]

\* C24: a cache hit never renews an entry. A call answered from the cache
\* leaves the map unchanged; an expiry is set only by the write of a call
\* that has just succeeded through the verifier, to the time of that call
\* after the verifier returned plus the TTL; an entry appears only through
\* such a write, so none exists for a hash that never verified.
C24_HitNeverRenews ==
    [][ /\ \A w \in Workers :
            /\ (LeavesLookup(w) /\ req'[w].path = "hit") => cache' = cache
            /\ (req[w].pc = "verify" /\ req'[w].pc = "write") =>
                    /\ req'[w].verdict = "ok"
                    /\ req'[w].expiry = now + cacheTTL
        /\ \A h \in Hashes :
            (/\ h \in DOMAIN cache'
             /\ h \in DOMAIN cache => cache'[h] # cache[h]) =>
                \E w \in Workers :
                    /\ req[w].pc = "write" /\ req'[w].pc # "write"
                    /\ HashOf(req[w]) = h
                    /\ req[w].verdict = "ok" /\ req[w].verifierCalls = 1
                    /\ cache'[h] = req[w].expiry ]_vars

\* C24 witness: a call has been answered from the cache at a time after the
\* entry was written, and the entry still has the expiry of its write
C24_Witness ==
    \E w \in Workers :
        LET h == HashOf(req[w])
        IN  /\ req[w].pc = "done" /\ req[w].path = "hit"
            /\ h \in DOMAIN cache
            /\ settled[h] >= 0 /\ settled[h] < now
            /\ cache[h] = settled[h] + cacheTTL
            /\ now < cache[h]

\* C25: Authenticate(u, p) returns success without the verifier only if the
\* same pair (u, p) was itself verified successfully within the last TTL,
\* because two different pairs never share a cache key, also when they
\* differ only in where a ':' falls, such as ("a:b", "c") and ("a", "b:c").
\* So a call with a pair that the verifier never accepts is never answered
\* with success.
C25_NoSharedCacheKey ==
    \A w \in Workers :
        [username |-> req[w].username, password |-> req[w].password]
                \in WrongCredentials
            => req[w].authRes # "nil"

\* the moves between the positions of one expansion: name substitution,
\* qualified tokens, bare tokens, domain, return
StageMoves ==
    { <<"start", "names">>, <<"start", "error">>,
      <<"names", "qualified">>,
      <<"qualified", "qualified">>, <<"qualified", "panic">>,
      <<"qualified", "simple">>,
      <<"simple", "simple">>, <<"simple", "domain">>,
      <<"domain", "done">> }

\* C26: the stages of an expansion run in the order name substitution,
\* qualified tokens, bare tokens, domain substitution, never back to an
\* earlier one, and the domain text put in last is not scanned for
\* placeholders: for the address u@{words} and the pattern {words}@%d the
\* alias is one generated word segment followed by the text "@{words}".
C26_StagesInOrder ==
    [][ /\ <<stage, stage'>> \in StageMoves
        /\ (/\ stage' = "done"
            /\ email = BraceDomainEmail
            /\ pattern = WordsPattern \o Suffix) =>
                /\ Len(processed') = 1 + Len(<<"@">> \o WordsPattern)
                /\ processed'[1].k = "words"
                /\ \A i \in 2..Len(processed') :
                        processed'[i] = Lit((<<"@">> \o WordsPattern)[i - 1])
      ]_vars

\* C26 witness: the expansion for the address u@{words} has returned with
\* the domain text as it was
C26_Witness ==
    /\ stage = "done"
    /\ email = BraceDomainEmail
    /\ pattern = WordsPattern \o Suffix
    /\ processed[1].k = "words"
    /\ View(Tail(processed)) = <<"@">> \o WordsPattern

\* C27: in a coordinated expansion the value of a name occurrence is got
\* from the base name by floor(len(base) * ratio) replacements, the ratio
\* fixed by the role: first name 0.3, last name 0.5, middle name 0.7,
\* nickname 0.4, generic name 0.2.
C27_ReplacementsByRole ==
    vr.stage = "done" =>
        vr.i = (Len(vr.baseName) * ChangeRatio(vr.role)) \div 10

\* the characters of the name at the end of the replacement loop have the
\* classes of the base name, position by position
SameClasses(runes, baseName) ==
    /\ Len(runes) = Len(baseName)
    /\ \A p \in 1..Len(runes) : isVowel(runes[p]) = isVowel(baseName[p])

\* C28: each replacement of generateNameVariation keeps the class of the
\* character at the chosen position and changes the character, a vowel to a
\* different vowel and a consonant to a different consonant, so after the
\* replacements every position has the class it has in the base name.
C28_ReplacementKeepsClassAndChanges ==
    /\ vr.last.pos # 0 =>
            /\ isVowel(vr.last.new) = isVowel(vr.last.old)
            /\ vr.last.new # vr.last.old
    /\ vr.stage \in {"replace", "resize"} => SameClasses(vr.runes, vr.baseName)

\* C29: generateNameVariation changes the length of the base name by at
\* most one: it deletes one character or inserts one, never both, deletes
\* only from more than 3 characters, so that at least 3 are left, and does
\* not return the empty string for a base name that is not empty.
C29_LengthChangesByAtMostOne ==
    (UsesVariation(vr.role) /\ vr.stage \in {"capitalize", "done"}) =>
        /\ ~(vr.removed /\ vr.inserted)
        /\ vr.removed =>
                /\ Len(vr.baseName) > 3
                /\ Len(vr.runes) = Len(vr.baseName) - 1
                /\ Len(vr.runes) >= 3
        /\ vr.inserted => Len(vr.runes) = Len(vr.baseName) + 1
        /\ (~vr.removed /\ ~vr.inserted) => Len(vr.runes) = Len(vr.baseName)
        /\ vr.runes # <<>>

\* C29 witness: a variation of a base name of four characters has returned
\* with one character deleted
C29_Witness ==
    /\ vr.stage = "done" /\ vr.role = TypeFirstName
    /\ vr.baseName = Toby
    /\ vr.removed /\ Len(vr.runes) = 3

\* generateNameVariation returns a value whose first letter is upper-case
\* exactly when the first letter of the base name is, also when a deletion
\* or an insertion changed which character is first; so do the base name
\* itself and its prefix.  This is what the values of bare keys do.
VariationKeepsCapital ==
    vr.stage = "done" =>
        /\ vr.runes # <<>>
        /\ IsUpperRune(vr.runes[1]) = IsUpperRune(vr.baseName[1])

\* the first character of a capitalised base name was deleted and the
\* value begins with the capital of the next one
VariationKeepsCapitalSeen ==
    /\ vr.stage = "done" /\ vr.role = TypeFirstName
    /\ vr.baseName = Kevan
    /\ vr.removed
    /\ vr.runes[1] = "E"

\* C30: coordinated names keep the capitalisation of the base name: in an
\* expansion with two or more name types every name of the returned alias
\* begins with a capital exactly when the base name does.  The values of
\* the map of generateCoordinatedNames carry the capital of the base name,
\* so all the names of the alias begin alike, the names put in place of
\* length-qualified tokens included.
C30_CapitalizationOfBaseKept ==
    (stage = "done" /\ Cardinality(nameTypes) >= 2) =>
        \A i \in 1..Len(processed), j \in 1..Len(processed) :
            (processed[i].k = "name" /\ processed[j].k = "name") =>
                processed[i].upper = processed[j].upper

====
